---------------------------- MODULE Spec2Model ----------------------------
(***************************************************************************)
(* A model of the grid-aligned paving engine of Ariadne (src/src/          *)
(* grid_set.cc): binary trees of cells with three-valued enabledness, the  *)
(* pavings built on them (GridTreeSubset / GridTreeSet), the set algebra   *)
(* on pavings and the oracle-driven approximation, restrict and remove     *)
(* drivers.                                                                *)
(*                                                                         *)
(* A tree node is a record [en, kids]: en is the tribool _isEnabled        *)
(* ("T" enabled, "F" disabled, "I" indeterminate) and kids is <<>> for a   *)
(* leaf or <<left, right>> for a node with children.  A BinaryWord is a    *)
(* sequence of BOOLEANs (FALSE = left / lower half, TRUE = right / upper   *)
(* half).                                                                  *)
(***************************************************************************)
EXTENDS Naturals, Integers, Sequences, FiniteSets, TLC

VARIABLES
    dim,      \* dimension of the grid every paving of the state lives on
    paving,   \* this GridTreeSet: [height, word, tree]
    other,    \* a second paving: an operand (GridTreeSubset) or a second GridTreeSet
    theSet,   \* the set or checker the drivers query, with the primary cell it lives in
    call      \* the public operations that have run, with their arguments and pre-states

vars == <<dim, paving, other, theSet, call>>

-----------------------------------------------------------------------------
(* Bounds of the model.                                                    *)

\* Largest number of nodes with children in a paving of an initial state.
MaxNodes == 2
\* Largest number of refining (non-final) answers of a set or checker.
MaxOracleNodes == 1
\* Longest root word of a GridTreeSubset operand.
MaxWordLen == 1
\* Largest number of subdivisions per dimension (numSubdivInDim, accuracy).
MaxSubdiv == 1
\* Largest primary cell height.
MaxHeight == 1

Dimensions == {1, 2}
Heights == 0 .. MaxHeight
Subdivisions == 0 .. MaxSubdiv

-----------------------------------------------------------------------------
(* Tribool.                                                                *)

Tribool == {"T", "F", "I"}
definitely(b) == b = "T"
possibly(b) == b # "F"
\* tribool && as used in BinaryTreeNode::restrict
tri_and(a, b) == IF a = "F" \/ b = "F" THEN "F"
                 ELSE IF a = "T" /\ b = "T" THEN "T" ELSE "I"
\* tribool == as used in BinaryTreeNode::recombine_node: indeterminate as soon
\* as one side is.
tri_eq(a, b) == IF a = "I" \/ b = "I" THEN "I" ELSE IF a = b THEN "T" ELSE "F"

-----------------------------------------------------------------------------
(* BinaryTreeNode.                                                         *)

Leaf(e) == [en |-> e, kids |-> <<>>]
Node(e, l, r) == [en |-> e, kids |-> <<l, r>>]

is_leaf(n) == n.kids = <<>>
left_node(n) == n.kids[1]
right_node(n) == n.kids[2]
is_enabled(n) == definitely(n.en)
is_disabled(n) == ~possibly(n.en)

\* A split that leaves the flag of the node as it was.
split_keeping_flag(n) == IF is_leaf(n) THEN Node(n.en, Leaf(n.en), Leaf(n.en)) ELSE n

\* split: a leaf gets two children carrying its enabledness and becomes
\* indeterminate; a node with children is left alone.
split(n) == IF is_leaf(n) THEN Node("I", Leaf(n.en), Leaf(n.en)) ELSE n

\* make_leaf(b): drop the subtrees and carry b.
make_leaf(n, b) == Leaf(b)

set_enabled(n) == [n EXCEPT !.en = "T"]
set_disabled(n) == [n EXCEPT !.en = "F"]
set_unknown(n) == [n EXCEPT !.en = "I"]

\* copy_from: take the other node's enabledness and a deep copy of its subtrees.
copy_from(n, pOtherNode) == pOtherNode

RECURSIVE has_enabled(_)
has_enabled(n) ==
    IF is_leaf(n) THEN is_enabled(n)
    ELSE has_enabled(left_node(n)) \/ has_enabled(right_node(n))

RECURSIVE all_enabled(_)
all_enabled(n) ==
    IF is_leaf(n) THEN is_enabled(n)
    ELSE all_enabled(left_node(n)) /\ all_enabled(right_node(n))

RECURSIVE depth(_)
depth(n) ==
    IF ~is_leaf(n)
    THEN LET dl == depth(left_node(n))
             dr == depth(right_node(n))
         IN (IF dl > dr THEN dl ELSE dr) + 1
    ELSE 0

RECURSIVE mince_node(_, _)

\* A faulty mince_node: a disabled node is split like any other.
mince_node_all(pCurrentNode, k) ==
    IF k > 0
    THEN LET s == split(pCurrentNode)
         IN [s EXCEPT !.kids = <<mince_node(left_node(s), k - 1),
                                 mince_node(right_node(s), k - 1)>>]
    ELSE pCurrentNode

mince_node(pCurrentNode, k) ==
    IF k > 0 /\ ~is_disabled(pCurrentNode)
    THEN LET s == split(pCurrentNode)
         IN [s EXCEPT !.kids = <<mince_node(left_node(s), k - 1),
                                 mince_node(right_node(s), k - 1)>>]
    ELSE pCurrentNode

mince(n, k) == mince_node(n, k)


RECURSIVE recombine_node(_)

\* A faulty recombine_node: a node is looked at before its subtrees are
\* recombined, not after.
recombine_node_top_down(pCurrentNode) ==
    IF ~is_leaf(pCurrentNode)
    THEN IF /\ is_leaf(left_node(pCurrentNode)) /\ is_leaf(right_node(pCurrentNode))
            /\ definitely(tri_eq(left_node(pCurrentNode).en, right_node(pCurrentNode).en))
         THEN make_leaf(pCurrentNode, left_node(pCurrentNode).en)
         ELSE [pCurrentNode EXCEPT !.kids = <<recombine_node(left_node(pCurrentNode)),
                                              recombine_node(right_node(pCurrentNode))>>]
    ELSE pCurrentNode

recombine_node(pCurrentNode) ==
    IF ~is_leaf(pCurrentNode)
    THEN LET pLeftNode == recombine_node(left_node(pCurrentNode))
             pRightNode == recombine_node(right_node(pCurrentNode))
         IN IF /\ is_leaf(pLeftNode) /\ is_leaf(pRightNode)
               /\ definitely(tri_eq(pLeftNode.en, pRightNode.en))
            THEN make_leaf(pCurrentNode, pLeftNode.en)
            ELSE [pCurrentNode EXCEPT !.kids = <<pLeftNode, pRightNode>>]
    ELSE pCurrentNode

recombine(n) == recombine_node(n)

\* The child a path bit selects, and the node with that child replaced.
child(n, bit) == IF bit THEN right_node(n) ELSE left_node(n)
with_child(n, bit, c) ==
    IF bit THEN [n EXCEPT !.kids = <<left_node(n), c>>]
    ELSE [n EXCEPT !.kids = <<c, right_node(n)>>]

\* is_enabled( path, position ): the cell the path names is enabled in the tree.
RECURSIVE is_enabled_path(_, _)
is_enabled_path(n, path) ==
    IF is_leaf(n) THEN is_enabled(n)
    ELSE IF path # <<>> THEN is_enabled_path(child(n, Head(path)), Tail(path))
    ELSE all_enabled(n)

\* restrict( pThisNode, pOtherNode ): pThisNode after the call.
RECURSIVE restrict_nodes(_, _)
restrict_nodes(pThisNode, pOtherNode) ==
    IF is_leaf(pThisNode) /\ is_leaf(pOtherNode)
    THEN [pThisNode EXCEPT !.en = tri_and(pThisNode.en, pOtherNode.en)]
    ELSE IF ~is_leaf(pThisNode) /\ is_leaf(pOtherNode)
    THEN (IF is_enabled(pOtherNode) THEN pThisNode ELSE make_leaf(pThisNode, "F"))
    ELSE IF is_leaf(pThisNode) /\ ~is_leaf(pOtherNode)
    THEN (IF is_enabled(pThisNode) THEN copy_from(pThisNode, pOtherNode) ELSE pThisNode)
    ELSE [pThisNode EXCEPT !.kids =
            <<restrict_nodes(left_node(pThisNode), left_node(pOtherNode)),
              restrict_nodes(right_node(pThisNode), right_node(pOtherNode))>>]

\* remove( pThisNode, pOtherNode ): pThisNode after the call.
RECURSIVE remove_nodes(_, _)

\* A faulty remove: an enabled leaf of the other tree takes nothing away from
\* a node that has children.
remove_nodes_leaves_only(pThisNode, pOtherNode) ==
    IF is_leaf(pThisNode) /\ is_leaf(pOtherNode)
    THEN (IF is_enabled(pThisNode) /\ is_enabled(pOtherNode)
          THEN [pThisNode EXCEPT !.en = "F"] ELSE pThisNode)
    ELSE IF ~is_leaf(pThisNode) /\ is_leaf(pOtherNode)
    THEN pThisNode
    ELSE IF is_leaf(pThisNode) /\ ~is_enabled(pThisNode)
    THEN pThisNode
    ELSE LET s == split(pThisNode)
         IN [s EXCEPT !.kids =
               <<remove_nodes(left_node(s), left_node(pOtherNode)),
                 remove_nodes(right_node(s), right_node(pOtherNode))>>]

remove_nodes(pThisNode, pOtherNode) ==
    IF is_leaf(pThisNode) /\ is_leaf(pOtherNode)
    THEN (IF is_enabled(pThisNode) /\ is_enabled(pOtherNode)
          THEN [pThisNode EXCEPT !.en = "F"] ELSE pThisNode)
    ELSE IF ~is_leaf(pThisNode) /\ is_leaf(pOtherNode)
    THEN (IF is_enabled(pOtherNode) THEN make_leaf(pThisNode, "F") ELSE pThisNode)
    ELSE IF is_leaf(pThisNode) /\ ~is_enabled(pThisNode)
    THEN pThisNode
    ELSE LET s == split(pThisNode)
         IN [s EXCEPT !.kids =
               <<remove_nodes(left_node(s), left_node(pOtherNode)),
                 remove_nodes(right_node(s), right_node(pOtherNode))>>]

\* add_enabled( pToTreeRoot, pFromTreeRoot ): pToTreeRoot after the call.
RECURSIVE add_enabled_nodes(_, _)
add_enabled_nodes(pToTreeRoot, pFromTreeRoot) ==
    IF is_leaf(pToTreeRoot)
    THEN IF is_enabled(pToTreeRoot) THEN pToTreeRoot
         ELSE IF is_leaf(pFromTreeRoot)
         THEN (IF is_enabled(pFromTreeRoot) THEN set_enabled(pToTreeRoot)
               ELSE pToTreeRoot)
         ELSE set_unknown([pToTreeRoot EXCEPT !.kids =
                 <<left_node(pFromTreeRoot), right_node(pFromTreeRoot)>>])
    ELSE IF is_leaf(pFromTreeRoot)
    THEN (IF is_enabled(pFromTreeRoot) THEN make_leaf(pToTreeRoot, "T")
          ELSE pToTreeRoot)
    ELSE [pToTreeRoot EXCEPT !.kids =
            <<add_enabled_nodes(left_node(pToTreeRoot), left_node(pFromTreeRoot)),
              add_enabled_nodes(right_node(pToTreeRoot), right_node(pFromTreeRoot))>>]

\* add_enabled( pOtherSubTree, path ): this node after the call.
RECURSIVE add_enabled_subtree(_, _, _)
add_enabled_subtree(this, pOtherSubTree, path) ==
    IF path # <<>> /\ ~is_enabled(this)
    THEN LET s == split(this)
         IN with_child(s, Head(path),
               add_enabled_subtree(child(s, Head(path)), pOtherSubTree, Tail(path)))
    ELSE IF ~is_enabled(this) THEN add_enabled_nodes(this, pOtherSubTree)
    ELSE this

\* add_enabled( pRootTreeNode, path, position ): pRootTreeNode after the call.
RECURSIVE add_enabled_path(_, _)
add_enabled_path(pRootTreeNode, path) ==
    IF path # <<>>
    THEN IF is_leaf(pRootTreeNode) /\ is_enabled(pRootTreeNode)
         THEN pRootTreeNode
         ELSE LET s == split(pRootTreeNode)
              IN with_child(s, Head(path),
                    add_enabled_path(child(s, Head(path)), Tail(path)))
    ELSE IF is_leaf(pRootTreeNode) THEN set_enabled(pRootTreeNode)
    ELSE make_leaf(pRootTreeNode, "T")

\* prepend_tree( rootNodePath, oldRootNode ) for a path of at least one bit:
\* a chain of split nodes along the path, the old root in place of the last leaf.
RECURSIVE prepend_tree(_, _)
prepend_tree(rootNodePath, oldRootNode) ==
    LET s == split(Leaf("F"))
    IN IF Len(rootNodePath) <= 1
       THEN with_child(s, Head(rootNodePath), oldRootNode)
       ELSE with_child(s, Head(rootNodePath),
                       prepend_tree(Tail(rootNodePath), oldRootNode))

-----------------------------------------------------------------------------
(* BinaryWord and the primary cells (GridAbstractCell, GridCell).          *)

RECURSIVE Repeat(_, _)
Repeat(bit, k) == IF k = 0 THEN <<>> ELSE <<bit>> \o Repeat(bit, k - 1)

RECURSIVE Words(_)
Words(k) == IF k = 0 THEN {<<>>}
            ELSE {<<>>} \cup {<<b>> \o w : b \in BOOLEAN, w \in Words(k - 1)}

WordsOfLength(k) == {w \in Words(k) : Len(w) = k}

\* primary_cell_path( dimensions, topPCellHeight, bottomPCellHeight )
RECURSIVE primary_cell_path(_, _, _)

\* A faulty path: ones at the even heights and zeroes at the odd ones.
primary_cell_path_even_ones(dimensions, topPCellHeight, bottomPCellHeight) ==
    IF topPCellHeight > bottomPCellHeight
    THEN Repeat((topPCellHeight % 2) = 0, dimensions)
         \o primary_cell_path(dimensions, topPCellHeight - 1, bottomPCellHeight)
    ELSE <<>>

primary_cell_path(dimensions, topPCellHeight, bottomPCellHeight) ==
    IF topPCellHeight > bottomPCellHeight
    THEN Repeat((topPCellHeight % 2) # 0, dimensions)
         \o primary_cell_path(dimensions, topPCellHeight - 1, bottomPCellHeight)
    ELSE <<>>

\* Lattice coordinates are dyadic rationals; the model keeps them as integers
\* in units of 1 / LatticeUnit(d), fine enough for every bisection a tree of
\* the model can ask for.
RECURSIVE Pow2(_)
Pow2(k) == IF k = 0 THEN 1 ELSE 2 * Pow2(k - 1)
Max(a, b) == IF a > b THEN a ELSE b
LatticeBits(d) == Max(MaxSubdiv, (MaxNodes + MaxWordLen + d - 1) \div d)
LatticeUnit(d) == Pow2(LatticeBits(d))

\* primary_cell_at_height( theHeight, leftBottomCorner, rightTopCorner ): one
\* step of the primary cell sequence, down at odd heights and up at even ones.
primary_cell_at_height(theHeight, c) ==
    IF theHeight % 2 = 1
    THEN [lo |-> 2 * c.lo - c.hi, hi |-> c.hi]
    ELSE [lo |-> c.lo, hi |-> 2 * c.hi - c.lo]

RECURSIVE primary_cell_corners(_, _)
primary_cell_corners(theHeight, unit) ==
    IF theHeight = 0 THEN [lo |-> 0, hi |-> unit]
    ELSE primary_cell_at_height(theHeight, primary_cell_corners(theHeight - 1, unit))

\* primary_cell_lattice_box( theHeight, dimensions )
primary_cell_lattice_box(theHeight, dimensions) ==
    [i \in 1 .. dimensions |-> primary_cell_corners(theHeight, LatticeUnit(dimensions))]

midpoint(iv) == (iv.lo + iv.hi) \div 2

\* One bisection of a lattice box along an axis (1 .. d), keeping the half the
\* bit names.
bisect(box, axis, bit) ==
    IF bit THEN [box EXCEPT ![axis].lo = midpoint(box[axis])]
    ELSE [box EXCEPT ![axis].hi = midpoint(box[axis])]

\* compute_lattice_box( dimensions, theHeight, theWord )
RECURSIVE lattice_box_walk(_, _, _, _)
lattice_box_walk(box, dimensions, theWord, i) ==
    IF i >= Len(theWord) THEN box
    ELSE lattice_box_walk(bisect(box, (i % dimensions) + 1, theWord[i + 1]),
                          dimensions, theWord, i + 1)

compute_lattice_box(dimensions, theHeight, theWord) ==
    lattice_box_walk(primary_cell_lattice_box(theHeight, dimensions),
                     dimensions, theWord, 0)

\* zero_cell_subdivisions_to_tree_subdivisions( numSubdivInDim,
\* primaryCellHeight, primaryToRootCellPathLength )
zero_cell_subdivisions_to_tree_subdivisions(d, numSubdivInDim, primaryCellHeight, pathLength) ==
    LET theNewDepth == (primaryCellHeight + numSubdivInDim) * d - pathLength
    IN IF theNewDepth > 0 THEN theNewDepth ELSE 0

-----------------------------------------------------------------------------
(* GridTreeSubset and GridTreeSet.  A paving is [height, word, tree]; a    *)
(* GridTreeSet has an empty word.                                          *)

GridTreeSet(theHeight, pRootTreeNode) ==
    [height |-> theHeight, word |-> <<>>, tree |-> pRootTreeNode]

RECURSIVE subtree_at(_, _)
subtree_at(n, path) ==
    IF path = <<>> THEN n ELSE subtree_at(child(n, Head(path)), Tail(path))

RECURSIVE replace_at(_, _, _)
replace_at(n, path, sub) ==
    IF path = <<>> THEN sub
    ELSE with_child(n, Head(path), replace_at(child(n, Head(path)), Tail(path), sub))

\* empty(): the paving has no enabled leaf.
empty(p) == ~has_enabled(p.tree)

\* up_to_primary_cell( toPCellHeight )
up_to_primary_cell(d, p, toPCellHeight) ==
    GridTreeSet(toPCellHeight,
                prepend_tree(primary_cell_path(d, toPCellHeight, p.height), p.tree))

\* The loop of align_with_cell: the tree after the splits, the path to the
\* node the loop ends at, and has_stopped.
RECURSIVE align_walk(_, _, _, _)
align_walk(n, path, stop_on_enabled, stop_on_disabled) ==
    IF path = <<>>
    THEN [tree |-> n, at |-> <<>>, has_stopped |-> FALSE]
    ELSE IF (is_enabled(n) /\ stop_on_enabled) \/ (is_disabled(n) /\ stop_on_disabled)
    THEN [tree |-> n, at |-> <<>>, has_stopped |-> TRUE]
    ELSE LET s == split(n)
             r == align_walk(child(s, Head(path)), Tail(path),
                             stop_on_enabled, stop_on_disabled)
         IN [tree |-> with_child(s, Head(path), r.tree),
             at |-> <<Head(path)>> \o r.at,
             has_stopped |-> r.has_stopped]

\* align_with_cell( otherPavingPCellHeight, stop_on_enabled, stop_on_disabled,
\* has_stopped ): the paving after the call, the path from its root to the
\* node returned, and has_stopped.
align_with_cell(d, p, otherPavingPCellHeight, stop_on_enabled, stop_on_disabled) ==
    IF p.height > otherPavingPCellHeight
    THEN LET r == align_walk(p.tree,
                             primary_cell_path(d, p.height, otherPavingPCellHeight),
                             stop_on_enabled, stop_on_disabled)
         IN [paving |-> GridTreeSet(p.height, r.tree), at |-> r.at,
             has_stopped |-> r.has_stopped]
    ELSE IF p.height < otherPavingPCellHeight
    THEN [paving |-> up_to_primary_cell(d, p, otherPavingPCellHeight), at |-> <<>>,
          has_stopped |-> FALSE]
    ELSE [paving |-> p, at |-> <<>>, has_stopped |-> FALSE]

\* GridTreeSet::adjoin( const GridTreeSubset& theOtherSubPaving )
adjoin(d, p, theOtherSubPaving) ==
    LET a == align_with_cell(d, p, theOtherSubPaving.height, TRUE, FALSE)
    IN IF ~a.has_stopped
       THEN [a.paving EXCEPT !.tree =
               replace_at(a.paving.tree, a.at,
                  add_enabled_subtree(subtree_at(a.paving.tree, a.at),
                                      theOtherSubPaving.tree, theOtherSubPaving.word))]
       ELSE a.paving

\* The loop and the final step of restrict_to_lower, on the node reached.
RECURSIVE restrict_to_lower_walk(_, _, _)
restrict_to_lower_walk(n, rootNodePath, pOtherTree) ==
    IF rootNodePath # <<>>
    THEN IF is_leaf(n) /\ is_disabled(n) THEN n
         ELSE LET s == split(n)
                  b == Head(rootNodePath)
                  disabled == with_child(s, ~b, make_leaf(child(s, ~b), "F"))
              IN with_child(disabled, b,
                    restrict_to_lower_walk(child(s, b), Tail(rootNodePath), pOtherTree))
    ELSE IF is_enabled(n) THEN copy_from(n, pOtherTree)
    ELSE IF is_disabled(n) THEN n
    ELSE restrict_nodes(n, pOtherTree)

\* A faulty restrict_to_lower: the path to the other paving's root stops at its
\* primary cell and leaves out the word of its root cell.
restrict_to_lower_without_word(d, p, theOtherSubPaving) ==
    [p EXCEPT !.tree = restrict_to_lower_walk(p.tree,
        primary_cell_path(d, p.height, theOtherSubPaving.height),
        theOtherSubPaving.tree)]

\* restrict_to_lower( theOtherSubPaving )
restrict_to_lower(d, p, theOtherSubPaving) ==
    [p EXCEPT !.tree = restrict_to_lower_walk(p.tree,
        primary_cell_path(d, p.height, theOtherSubPaving.height) \o theOtherSubPaving.word,
        theOtherSubPaving.tree)]

\* GridTreeSet::restrict( theOtherSubPaving )
restrict(d, p, theOtherSubPaving) ==
    restrict_to_lower(d,
        IF p.height < theOtherSubPaving.height
        THEN up_to_primary_cell(d, p, theOtherSubPaving.height) ELSE p,
        theOtherSubPaving)

\* The loop and the final step of remove_from_lower, on the node reached.
RECURSIVE remove_from_lower_walk(_, _, _)
remove_from_lower_walk(n, rootNodePath, pOtherTree) ==
    IF rootNodePath # <<>>
    THEN IF is_leaf(n) /\ is_disabled(n) THEN n
         ELSE LET s == split(n)
                  b == Head(rootNodePath)
              IN with_child(s, b,
                    remove_from_lower_walk(child(s, b), Tail(rootNodePath), pOtherTree))
    ELSE IF is_disabled(n) THEN n
    ELSE remove_nodes(n, pOtherTree)

\* remove_from_lower( theOtherSubPaving )
remove_from_lower(d, p, theOtherSubPaving) ==
    [p EXCEPT !.tree = remove_from_lower_walk(p.tree,
        primary_cell_path(d, p.height, theOtherSubPaving.height) \o theOtherSubPaving.word,
        theOtherSubPaving.tree)]

\* GridTreeSet::remove( const GridTreeSubset& theOtherSubPaving )
remove(d, p, theOtherSubPaving) ==
    remove_from_lower(d,
        IF p.height < theOtherSubPaving.height
        THEN up_to_primary_cell(d, p, theOtherSubPaving.height) ELSE p,
        theOtherSubPaving)

maxPCHeight(theSet1, theSet2) ==
    IF theSet1.height < theSet2.height THEN theSet2.height ELSE theSet1.height

\* A faulty join: the second set is not adjoined.
join_first_only(d, theSet1, theSet2) ==
    adjoin(d, GridTreeSet(maxPCHeight(theSet1, theSet2), Leaf("F")), theSet1)

\* join( theSet1, theSet2 )
join(d, theSet1, theSet2) ==
    adjoin(d, adjoin(d, GridTreeSet(maxPCHeight(theSet1, theSet2), Leaf("F")), theSet1),
           theSet2)

\* intersection( theSet1, theSet2 )
intersection(d, theSet1, theSet2) ==
    restrict(d, adjoin(d, GridTreeSet(maxPCHeight(theSet1, theSet2), Leaf("F")), theSet1),
             theSet2)

\* difference( theSet1, theSet2 )
difference(d, theSet1, theSet2) ==
    remove(d, adjoin(d, GridTreeSet(maxPCHeight(theSet1, theSet2), Leaf("F")), theSet1),
           theSet2)

-----------------------------------------------------------------------------
(* Predicates on two GridTreeSubsets of one grid.                          *)

\* BinaryWord::is_prefix: p is a prefix of w; BinaryWord::erase_prefix.
is_prefix(p, w) == Len(p) <= Len(w) /\ SubSeq(w, 1, Len(p)) = p
erase_prefix(w, k) == SubSeq(w, k + 1, Len(w))

\* BinaryTreeNode::overlap( pRootNodeOne, pRootNodeTwo )
RECURSIVE overlap_nodes(_, _)
overlap_nodes(pRootNodeOne, pRootNodeTwo) ==
    IF is_leaf(pRootNodeOne) /\ is_leaf(pRootNodeTwo)
    THEN is_enabled(pRootNodeOne) /\ is_enabled(pRootNodeTwo)
    ELSE IF ~is_leaf(pRootNodeOne) /\ is_leaf(pRootNodeTwo)
    THEN is_enabled(pRootNodeTwo) /\ has_enabled(pRootNodeOne)
    ELSE IF is_leaf(pRootNodeOne) /\ ~is_leaf(pRootNodeTwo)
    THEN is_enabled(pRootNodeOne) /\ has_enabled(pRootNodeTwo)
    ELSE \/ overlap_nodes(left_node(pRootNodeOne), left_node(pRootNodeTwo))
         \/ overlap_nodes(right_node(pRootNodeOne), right_node(pRootNodeTwo))

\* BinaryTreeNode::subset( pRootNodeOne, pRootNodeTwo )
RECURSIVE subset_nodes(_, _)
subset_nodes(pRootNodeOne, pRootNodeTwo) ==
    IF is_leaf(pRootNodeOne) /\ is_leaf(pRootNodeTwo)
    THEN ~is_enabled(pRootNodeOne) \/ is_enabled(pRootNodeTwo)
    ELSE IF ~is_leaf(pRootNodeOne) /\ is_leaf(pRootNodeTwo)
    THEN is_enabled(pRootNodeTwo) \/ ~has_enabled(pRootNodeOne)
    ELSE IF is_leaf(pRootNodeOne) /\ ~is_leaf(pRootNodeTwo)
    THEN ~is_enabled(pRootNodeOne) \/ all_enabled(pRootNodeTwo)
    ELSE /\ subset_nodes(left_node(pRootNodeOne), left_node(pRootNodeTwo))
         /\ subset_nodes(right_node(pRootNodeOne), right_node(pRootNodeTwo))

\* common_primary_cell_path( theSet1, theSet2, pathCommonPCtoRC1,
\* pathCommonPCtoRC2 ): the two paths, as a pair.
common_primary_cell_path(d, theSet1, theSet2) ==
    IF theSet2.height > theSet1.height
    THEN <<primary_cell_path(d, theSet2.height, theSet1.height) \o theSet1.word,
           theSet2.word>>
    ELSE <<theSet1.word,
           primary_cell_path(d, theSet1.height, theSet2.height) \o theSet2.word>>

\* locate_node( pSuperTreeRootNode, pathFromSuperToSub )
RECURSIVE locate_node(_, _)
locate_node(pSuperTreeRootNode, pathFromSuperToSub) ==
    IF pathFromSuperToSub = <<>> \/ is_leaf(pSuperTreeRootNode) THEN pSuperTreeRootNode
    ELSE locate_node(child(pSuperTreeRootNode, Head(pathFromSuperToSub)),
                     Tail(pathFromSuperToSub))

\* static subset( pSubTreeRootNode, pSuperTreeRootNode, pathFromSuperToSub ):
\* is the set of the sub tree inside the set of the super tree.
subset_sub_super(pSubTreeRootNode, pSuperTreeRootNode, pathFromSuperToSub) ==
    IF has_enabled(pSubTreeRootNode)
    THEN IF has_enabled(pSuperTreeRootNode)
         THEN LET pCurrentSuperTreeNode ==
                      locate_node(pSuperTreeRootNode, pathFromSuperToSub)
              IN IF is_leaf(pCurrentSuperTreeNode) THEN is_enabled(pCurrentSuperTreeNode)
                 ELSE subset_nodes(pSubTreeRootNode, pCurrentSuperTreeNode)
         ELSE FALSE
    ELSE TRUE

\* The loop of static subset( pSuperTreeRootNode, pathFromSuperToSub,
\* pSubTreeRootNode ): the node it ends at, the path not yet followed, and
\* areExtraLeavesDisabled.
RECURSIVE subset_walk(_, _)
subset_walk(pCurrentSuperTreeNode, path) ==
    IF path = <<>> \/ is_leaf(pCurrentSuperTreeNode)
    THEN [node |-> pCurrentSuperTreeNode, rest |-> path, areExtraLeavesDisabled |-> TRUE]
    ELSE IF has_enabled(child(pCurrentSuperTreeNode, ~Head(path)))
    THEN [node |-> child(pCurrentSuperTreeNode, Head(path)), rest |-> Tail(path),
          areExtraLeavesDisabled |-> FALSE]
    ELSE subset_walk(child(pCurrentSuperTreeNode, Head(path)), Tail(path))

\* static subset( pSuperTreeRootNode, pathFromSuperToSub, pSubTreeRootNode ):
\* is the set of the super tree inside the set of the sub tree.
subset_super_sub(pSuperTreeRootNode, pathFromSuperToSub, pSubTreeRootNode) ==
    LET w == subset_walk(pSuperTreeRootNode, pathFromSuperToSub)
    IN IF w.areExtraLeavesDisabled
       THEN IF is_leaf(w.node)
            THEN IF is_enabled(w.node)
                 THEN IF w.rest # <<>> THEN FALSE
                      ELSE subset_nodes(w.node, pSubTreeRootNode)
                 ELSE TRUE
            ELSE subset_nodes(w.node, pSubTreeRootNode)
       ELSE FALSE

\* subset( theSet1, theSet2 )
subset(d, theSet1, theSet2) ==
    LET paths == common_primary_cell_path(d, theSet1, theSet2)
        pathCommonPCtoRC1 == paths[1]
        pathCommonPCtoRC2 == paths[2]
    IN IF is_prefix(pathCommonPCtoRC1, pathCommonPCtoRC2)
       THEN subset_super_sub(theSet1.tree,
                erase_prefix(pathCommonPCtoRC2, Len(pathCommonPCtoRC1)), theSet2.tree)
       ELSE IF is_prefix(pathCommonPCtoRC2, pathCommonPCtoRC1)
       THEN subset_sub_super(theSet1.tree, theSet2.tree,
                erase_prefix(pathCommonPCtoRC1, Len(pathCommonPCtoRC2)))
       ELSE FALSE

\* static overlap( pSuperTreeRootNode, pathFromSuperToSub, pSubTreeRootNode )
overlap_super_sub(pSuperTreeRootNode, pathFromSuperToSub, pSubTreeRootNode) ==
    IF has_enabled(pSuperTreeRootNode) /\ has_enabled(pSubTreeRootNode)
    THEN LET pCurrentSuperTreeNode == locate_node(pSuperTreeRootNode, pathFromSuperToSub)
         IN IF is_leaf(pCurrentSuperTreeNode) THEN is_enabled(pCurrentSuperTreeNode)
            ELSE overlap_nodes(pCurrentSuperTreeNode, pSubTreeRootNode)
    ELSE FALSE

\* A faulty overlap: sets whose root cells differ are taken not to overlap.
overlap_aligned_only(d, theSet1, theSet2) ==
    LET paths == common_primary_cell_path(d, theSet1, theSet2)
    IN IF paths[1] = paths[2]
       THEN overlap_super_sub(theSet1.tree, <<>>, theSet2.tree)
       ELSE FALSE

\* overlap( theSet1, theSet2 )
overlap(d, theSet1, theSet2) ==
    LET paths == common_primary_cell_path(d, theSet1, theSet2)
        pathCommonPCtoRC1 == paths[1]
        pathCommonPCtoRC2 == paths[2]
    IN IF is_prefix(pathCommonPCtoRC1, pathCommonPCtoRC2)
       THEN overlap_super_sub(theSet1.tree,
                erase_prefix(pathCommonPCtoRC2, Len(pathCommonPCtoRC1)), theSet2.tree)
       ELSE IF is_prefix(pathCommonPCtoRC2, pathCommonPCtoRC1)
       THEN overlap_super_sub(theSet2.tree,
                erase_prefix(pathCommonPCtoRC1, Len(pathCommonPCtoRC2)), theSet1.tree)
       ELSE FALSE

\* disjoint( theSet1, theSet2 ) on two GridTreeSubsets
disjoint_subsets(d, theSet1, theSet2) == ~overlap(d, theSet1, theSet2)

-----------------------------------------------------------------------------
(* The sets and checkers the drivers query.  A set lives in the primary    *)
(* cell of height theSet.height and answers by cell: its answers form a    *)
(* tree [label, kids] over the bisections of that cell.  A node with kids  *)
(* is a cell the set gives no final answer for; a node without kids        *)
(* carries the answer for its cell and for every box inside it, as the     *)
(* answers of one set about nested boxes do.  The labels are               *)
(*   "in"   the set covers the box,                                        *)
(*   "out"  the set is disjoint from the box,                              *)
(*   "cut"  the set overlaps the box and is not known to cover it,         *)
(*   "unk"  nothing is known.                                              *)

box_inside(b, c) == \A i \in DOMAIN b : c[i].lo <= b[i].lo /\ b[i].hi <= c[i].hi

RECURSIVE answer_walk(_, _, _, _, _)
answer_walk(o, cell, k, d, box) ==
    IF o.kids = <<>> \/ cell = box THEN o.label
    ELSE LET lower == bisect(cell, (k % d) + 1, FALSE)
             upper == bisect(cell, (k % d) + 1, TRUE)
         IN IF box_inside(box, lower) THEN answer_walk(o.kids[1], lower, k + 1, d, box)
            ELSE answer_walk(o.kids[2], upper, k + 1, d, box)

answer(set, d, box) ==
    answer_walk(set.answers, primary_cell_lattice_box(set.height, d), 0, d, box)

\* OpenSetInterface::covers( box )
covers(set, d, box) ==
    LET a == answer(set, d, box)
    IN IF a = "in" THEN "T" ELSE IF a = "out" THEN "F" ELSE "I"

\* OvertSetInterface::overlaps( box )
overlaps(set, d, box) ==
    LET a == answer(set, d, box)
    IN IF a \in {"in", "cut"} THEN "T" ELSE IF a = "out" THEN "F" ELSE "I"

\* CompactSetInterface::disjoint( box )
disjoint(set, d, box) ==
    LET a == answer(set, d, box)
    IN IF a = "out" THEN "T" ELSE IF a \in {"in", "cut"} THEN "F" ELSE "I"

\* SetCheckerInterface::check( box )
check(checker, d, box) ==
    LET a == answer(checker, d, box)
    IN IF a = "in" THEN "T" ELSE IF a = "out" THEN "F" ELSE "I"

\* GridCell( theGrid, theHeight, theWord ).box() on the unit grid.
cell_box(d, theHeight, theWord) == compute_lattice_box(d, theHeight, theWord)

-----------------------------------------------------------------------------
(* The approximation drivers.  Each returns pBinaryTreeNode after the call. *)

\* A faulty recombination: one enabled child is enough to enable the cell.
rejoin_either(s, l, r) ==
    IF is_enabled(l) \/ is_enabled(r) THEN make_leaf(Node(s.en, l, r), "T")
    ELSE Node(s.en, l, r)

\* The two recursive calls of a driver put back under the split node, with
\* the recombination "if both the leaves become enabled".
rejoin(s, l, r) ==
    IF is_enabled(l) /\ is_enabled(r) THEN make_leaf(Node(s.en, l, r), "T")
    ELSE Node(s.en, l, r)

\* _adjoin_outer_approximation( theGrid, lattice_box, pBinaryTreeNode,
\* primary_cell_height, max_mince_depth, theSet, pPath ), sets other than
\* TaylorSet.
RECURSIVE _adjoin_outer_approximation(_, _, _, _, _, _)

\* A faulty _adjoin_outer_approximation: at the maximum depth it enables only
\* a cell the set is definitely not disjoint from.
_adjoin_outer_approximation_definite(d, lattice_box, pBinaryTreeNode, max_mince_depth, set, pPath) ==
    IF definitely(disjoint(set, d, lattice_box)) THEN pBinaryTreeNode
    ELSE IF set.open /\ definitely(covers(set, d, lattice_box))
    THEN make_leaf(pBinaryTreeNode, "T")
    ELSE IF is_enabled(pBinaryTreeNode) THEN pBinaryTreeNode
    ELSE IF Len(pPath) < max_mince_depth
    THEN LET new_dimension == (Len(pPath) % d) + 1
             s == split(pBinaryTreeNode)
         IN rejoin(s,
               _adjoin_outer_approximation(d, bisect(lattice_box, new_dimension, FALSE),
                   left_node(s), max_mince_depth, set, Append(pPath, FALSE)),
               _adjoin_outer_approximation(d, bisect(lattice_box, new_dimension, TRUE),
                   right_node(s), max_mince_depth, set, Append(pPath, TRUE)))
    ELSE IF possibly(disjoint(set, d, lattice_box)) THEN pBinaryTreeNode
    ELSE make_leaf(pBinaryTreeNode, "T")

\* A faulty _adjoin_outer_approximation: at the maximum depth it enables a
\* leaf but leaves a node with children as it is.
_adjoin_outer_approximation_leaves_only(d, lattice_box, pBinaryTreeNode, max_mince_depth, set, pPath) ==
    IF definitely(disjoint(set, d, lattice_box)) THEN pBinaryTreeNode
    ELSE IF set.open /\ definitely(covers(set, d, lattice_box))
    THEN make_leaf(pBinaryTreeNode, "T")
    ELSE IF is_enabled(pBinaryTreeNode) THEN pBinaryTreeNode
    ELSE IF Len(pPath) < max_mince_depth
    THEN LET new_dimension == (Len(pPath) % d) + 1
             s == split(pBinaryTreeNode)
         IN rejoin(s,
               _adjoin_outer_approximation(d, bisect(lattice_box, new_dimension, FALSE),
                   left_node(s), max_mince_depth, set, Append(pPath, FALSE)),
               _adjoin_outer_approximation(d, bisect(lattice_box, new_dimension, TRUE),
                   right_node(s), max_mince_depth, set, Append(pPath, TRUE)))
    ELSE IF ~is_leaf(pBinaryTreeNode) THEN pBinaryTreeNode
    ELSE set_enabled(pBinaryTreeNode)

_adjoin_outer_approximation(d, lattice_box, pBinaryTreeNode, max_mince_depth, set, pPath) ==
    IF definitely(disjoint(set, d, lattice_box)) THEN pBinaryTreeNode
    ELSE IF set.open /\ definitely(covers(set, d, lattice_box))
    THEN make_leaf(pBinaryTreeNode, "T")
    ELSE IF is_enabled(pBinaryTreeNode) THEN pBinaryTreeNode
    ELSE IF Len(pPath) < max_mince_depth
    THEN LET new_dimension == (Len(pPath) % d) + 1
             left_lattice_box == bisect(lattice_box, new_dimension, FALSE)
             right_lattice_box == bisect(lattice_box, new_dimension, TRUE)
             s == split(pBinaryTreeNode)
         IN rejoin(s,
               _adjoin_outer_approximation(d, left_lattice_box, left_node(s),
                   max_mince_depth, set, Append(pPath, FALSE)),
               _adjoin_outer_approximation(d, right_lattice_box, right_node(s),
                   max_mince_depth, set, Append(pPath, TRUE)))
    ELSE IF ~is_leaf(pBinaryTreeNode) THEN make_leaf(pBinaryTreeNode, "T")
    ELSE set_enabled(pBinaryTreeNode)

\* _adjoin_lower_approximation( ..., const OvertSetInterface& theSet, pPath )
RECURSIVE _adjoin_lower_approximation_overt(_, _, _, _, _, _)

\* A faulty _adjoin_lower_approximation: it goes on where the set possibly
\* overlaps the cell.
_adjoin_lower_approximation_possibly(d, pBinaryTreeNode, primary_cell_height, max_mince_depth, set, pPath) ==
    IF possibly(overlaps(set, d, cell_box(d, primary_cell_height, pPath)))
    THEN IF Len(pPath) >= max_mince_depth
         THEN (IF ~has_enabled(pBinaryTreeNode) THEN make_leaf(pBinaryTreeNode, "T")
               ELSE pBinaryTreeNode)
         ELSE LET s == split(pBinaryTreeNode)
              IN Node(s.en,
                    _adjoin_lower_approximation_overt(d, left_node(s),
                        primary_cell_height, max_mince_depth, set, Append(pPath, FALSE)),
                    _adjoin_lower_approximation_overt(d, right_node(s),
                        primary_cell_height, max_mince_depth, set, Append(pPath, TRUE)))
    ELSE pBinaryTreeNode

_adjoin_lower_approximation_overt(d, pBinaryTreeNode, primary_cell_height, max_mince_depth, set, pPath) ==
    IF definitely(overlaps(set, d, cell_box(d, primary_cell_height, pPath)))
    THEN IF Len(pPath) >= max_mince_depth
         THEN (IF ~has_enabled(pBinaryTreeNode) THEN make_leaf(pBinaryTreeNode, "T")
               ELSE pBinaryTreeNode)
         ELSE LET s == split(pBinaryTreeNode)
              IN Node(s.en,
                    _adjoin_lower_approximation_overt(d, left_node(s),
                        primary_cell_height, max_mince_depth, set, Append(pPath, FALSE)),
                    _adjoin_lower_approximation_overt(d, right_node(s),
                        primary_cell_height, max_mince_depth, set, Append(pPath, TRUE)))
    ELSE pBinaryTreeNode

\* _adjoin_lower_approximation( ..., const OpenSetInterface& theSet, pPath )
RECURSIVE _adjoin_lower_approximation_open(_, _, _, _, _, _)
_adjoin_lower_approximation_open(d, pBinaryTreeNode, primary_cell_height, max_mince_depth, set, pPath) ==
    IF definitely(covers(set, d, cell_box(d, primary_cell_height, pPath)))
    THEN mince(make_leaf(pBinaryTreeNode, "T"), max_mince_depth - Len(pPath))
    ELSE IF definitely(overlaps(set, d, cell_box(d, primary_cell_height, pPath)))
    THEN IF Len(pPath) >= max_mince_depth
         THEN (IF is_leaf(pBinaryTreeNode) THEN set_enabled(pBinaryTreeNode)
               ELSE pBinaryTreeNode)
         ELSE LET s == split(pBinaryTreeNode)
              IN Node(s.en,
                    _adjoin_lower_approximation_open(d, left_node(s),
                        primary_cell_height, max_mince_depth, set, Append(pPath, FALSE)),
                    _adjoin_lower_approximation_open(d, right_node(s),
                        primary_cell_height, max_mince_depth, set, Append(pPath, TRUE)))
    ELSE pBinaryTreeNode

\* _adjoin_inner_approximation( ..., const OpenSetInterface& theSet, pPath )
RECURSIVE _adjoin_inner_approximation(_, _, _, _, _, _)

\* A faulty _adjoin_inner_approximation: at the maximum depth it enables a
\* cell the set possibly overlaps.
_adjoin_inner_approximation_overlapping(d, pBinaryTreeNode, primary_cell_height, max_mince_depth, set, pPath) ==
    IF ~is_enabled(pBinaryTreeNode)
    THEN IF definitely(covers(set, d, cell_box(d, primary_cell_height, pPath)))
         THEN make_leaf(pBinaryTreeNode, "T")
         ELSE IF possibly(overlaps(set, d, cell_box(d, primary_cell_height, pPath)))
         THEN IF Len(pPath) >= max_mince_depth THEN make_leaf(pBinaryTreeNode, "T")
              ELSE LET s == split(pBinaryTreeNode)
                   IN Node(s.en,
                         _adjoin_inner_approximation(d, left_node(s),
                             primary_cell_height, max_mince_depth, set, Append(pPath, FALSE)),
                         _adjoin_inner_approximation(d, right_node(s),
                             primary_cell_height, max_mince_depth, set, Append(pPath, TRUE)))
         ELSE pBinaryTreeNode
    ELSE pBinaryTreeNode

_adjoin_inner_approximation(d, pBinaryTreeNode, primary_cell_height, max_mince_depth, set, pPath) ==
    IF ~is_enabled(pBinaryTreeNode)
    THEN IF definitely(covers(set, d, cell_box(d, primary_cell_height, pPath)))
         THEN make_leaf(pBinaryTreeNode, "T")
         ELSE IF possibly(overlaps(set, d, cell_box(d, primary_cell_height, pPath)))
         THEN IF Len(pPath) >= max_mince_depth THEN pBinaryTreeNode
              ELSE LET s == split(pBinaryTreeNode)
                   IN Node(s.en,
                         _adjoin_inner_approximation(d, left_node(s),
                             primary_cell_height, max_mince_depth, set, Append(pPath, FALSE)),
                         _adjoin_inner_approximation(d, right_node(s),
                             primary_cell_height, max_mince_depth, set, Append(pPath, TRUE)))
         ELSE pBinaryTreeNode
    ELSE pBinaryTreeNode

\* The node align_with_cell returns, and the paving with that node replaced
\* by what a driver made of it.
aligned_node(a) == subtree_at(a.paving.tree, a.at)
with_aligned_node(a, n) == [a.paving EXCEPT !.tree = replace_at(a.paving.tree, a.at, n)]

\* adjoin_outer_approximation( theSet, numSubdivInDim ); theHeight is
\* smallest_enclosing_primary_cell_height( theSet.bounding_box() ).
adjoin_outer_approximation(d, p, set, theHeight, numSubdivInDim) ==
    LET a == align_with_cell(d, p, theHeight, TRUE, FALSE)
        max_mince_depth ==
            zero_cell_subdivisions_to_tree_subdivisions(d, numSubdivInDim, theHeight, 0)
        lattice_box == compute_lattice_box(d, theHeight, <<>>)
    IN IF ~a.has_stopped
       THEN with_aligned_node(a,
               _adjoin_outer_approximation(d, lattice_box, aligned_node(a),
                                           max_mince_depth, set, <<>>))
       ELSE a.paving

\* adjoin_lower_approximation( theSet, height, numSubdivInDim )
adjoin_lower_approximation(d, p, set, theHeight, numSubdivInDim) ==
    LET a == align_with_cell(d, p, theHeight, TRUE, FALSE)
        max_mince_depth ==
            zero_cell_subdivisions_to_tree_subdivisions(d, numSubdivInDim, theHeight, 0)
    IN IF ~a.has_stopped
       THEN with_aligned_node(a,
               IF set.open
               THEN _adjoin_lower_approximation_open(d, aligned_node(a), theHeight,
                                                     max_mince_depth, set, <<>>)
               ELSE _adjoin_lower_approximation_overt(d, aligned_node(a), theHeight,
                                                      max_mince_depth, set, <<>>))
       ELSE a.paving

\* adjoin_inner_approximation( theSet, height, numSubdivInDim )
adjoin_inner_approximation(d, p, set, theHeight, numSubdivInDim) ==
    LET a == align_with_cell(d, p, theHeight, TRUE, FALSE)
        max_mince_depth ==
            zero_cell_subdivisions_to_tree_subdivisions(d, numSubdivInDim, theHeight, 0)
    IN IF ~a.has_stopped
       THEN with_aligned_node(a,
               _adjoin_inner_approximation(d, aligned_node(a), theHeight,
                                           max_mince_depth, set, <<>>))
       ELSE a.paving

-----------------------------------------------------------------------------
(* The restrict and remove drivers.  Each returns pBinaryTreeNode after    *)
(* the call.                                                               *)

\* A faulty end of the mincing: the node is left as it is.
keep_node(n) == n

\* What a driver does to a node once it must not mince any further.
disable_node(n) == IF ~is_leaf(n) THEN make_leaf(n, "F") ELSE set_disabled(n)

\* _outer_restrict( ..., const SetCheckerInterface& checker, pPath )
RECURSIVE _outer_restrict_checker(_, _, _, _, _, _)

\* A faulty _outer_restrict: at the maximum depth it disables a cell the
\* checker cannot decide.
_outer_restrict_checker_strict(d, pBinaryTreeNode, primary_cell_height, max_mince_depth, set, pPath) ==
    LET test == check(set, d, cell_box(d, primary_cell_height, pPath))
    IN IF definitely(test) THEN pBinaryTreeNode
       ELSE IF ~possibly(test) THEN make_leaf(pBinaryTreeNode, "F")
       ELSE IF Len(pPath) < max_mince_depth
       THEN LET s == split(pBinaryTreeNode)
            IN rejoin(s,
                  _outer_restrict_checker(d, left_node(s), primary_cell_height,
                      max_mince_depth, set, Append(pPath, FALSE)),
                  _outer_restrict_checker(d, right_node(s), primary_cell_height,
                      max_mince_depth, set, Append(pPath, TRUE)))
       ELSE make_leaf(pBinaryTreeNode, "F")

_outer_restrict_checker(d, pBinaryTreeNode, primary_cell_height, max_mince_depth, set, pPath) ==
    LET test == check(set, d, cell_box(d, primary_cell_height, pPath))
    IN IF definitely(test) THEN pBinaryTreeNode
       ELSE IF ~possibly(test) THEN make_leaf(pBinaryTreeNode, "F")
       ELSE IF Len(pPath) < max_mince_depth
       THEN LET s == split(pBinaryTreeNode)
            IN rejoin(s,
                  _outer_restrict_checker(d, left_node(s), primary_cell_height,
                      max_mince_depth, set, Append(pPath, FALSE)),
                  _outer_restrict_checker(d, right_node(s), primary_cell_height,
                      max_mince_depth, set, Append(pPath, TRUE)))
       ELSE pBinaryTreeNode

\* _outer_restrict( ..., const OpenSetInterface& set, pPath )
RECURSIVE _outer_restrict_open(_, _, _, _, _, _)

\* A faulty _outer_restrict: a cell the set covers is enabled as a whole.
_outer_restrict_open_enabling(d, pBinaryTreeNode, primary_cell_height, max_mince_depth, set, pPath) ==
    LET box == cell_box(d, primary_cell_height, pPath)
    IN IF definitely(covers(set, d, box)) THEN make_leaf(pBinaryTreeNode, "T")
       ELSE IF ~possibly(overlaps(set, d, box)) THEN make_leaf(pBinaryTreeNode, "F")
       ELSE IF Len(pPath) < max_mince_depth
       THEN LET s == split(pBinaryTreeNode)
            IN rejoin(s,
                  _outer_restrict_open(d, left_node(s), primary_cell_height,
                      max_mince_depth, set, Append(pPath, FALSE)),
                  _outer_restrict_open(d, right_node(s), primary_cell_height,
                      max_mince_depth, set, Append(pPath, TRUE)))
       ELSE pBinaryTreeNode

_outer_restrict_open(d, pBinaryTreeNode, primary_cell_height, max_mince_depth, set, pPath) ==
    LET box == cell_box(d, primary_cell_height, pPath)
    IN IF definitely(covers(set, d, box)) THEN pBinaryTreeNode
       ELSE IF ~possibly(overlaps(set, d, box)) THEN make_leaf(pBinaryTreeNode, "F")
       ELSE IF Len(pPath) < max_mince_depth
       THEN LET s == split(pBinaryTreeNode)
            IN rejoin(s,
                  _outer_restrict_open(d, left_node(s), primary_cell_height,
                      max_mince_depth, set, Append(pPath, FALSE)),
                  _outer_restrict_open(d, right_node(s), primary_cell_height,
                      max_mince_depth, set, Append(pPath, TRUE)))
       ELSE pBinaryTreeNode

\* _inner_restrict( ..., const SetCheckerInterface& checker, pPath )
RECURSIVE _inner_restrict_checker(_, _, _, _, _, _)

\* A faulty _inner_restrict: at the maximum depth it keeps a cell the checker
\* cannot decide.
_inner_restrict_checker_lax(d, pBinaryTreeNode, primary_cell_height, max_mince_depth, set, pPath) ==
    LET test == check(set, d, cell_box(d, primary_cell_height, pPath))
    IN IF definitely(test) THEN pBinaryTreeNode
       ELSE IF ~possibly(test) THEN make_leaf(pBinaryTreeNode, "F")
       ELSE IF Len(pPath) < max_mince_depth
       THEN LET s == split(pBinaryTreeNode)
            IN rejoin(s,
                  _inner_restrict_checker(d, left_node(s), primary_cell_height,
                      max_mince_depth, set, Append(pPath, FALSE)),
                  _inner_restrict_checker(d, right_node(s), primary_cell_height,
                      max_mince_depth, set, Append(pPath, TRUE)))
       ELSE pBinaryTreeNode

_inner_restrict_checker(d, pBinaryTreeNode, primary_cell_height, max_mince_depth, set, pPath) ==
    LET test == check(set, d, cell_box(d, primary_cell_height, pPath))
    IN IF definitely(test) THEN pBinaryTreeNode
       ELSE IF ~possibly(test) THEN make_leaf(pBinaryTreeNode, "F")
       ELSE IF Len(pPath) < max_mince_depth
       THEN LET s == split(pBinaryTreeNode)
            IN rejoin(s,
                  _inner_restrict_checker(d, left_node(s), primary_cell_height,
                      max_mince_depth, set, Append(pPath, FALSE)),
                  _inner_restrict_checker(d, right_node(s), primary_cell_height,
                      max_mince_depth, set, Append(pPath, TRUE)))
       ELSE disable_node(pBinaryTreeNode)

\* _inner_restrict( ..., const OpenSetInterface& set, pPath )
RECURSIVE _inner_restrict_open(_, _, _, _, _, _)
_inner_restrict_open(d, pBinaryTreeNode, primary_cell_height, max_mince_depth, set, pPath) ==
    LET box == cell_box(d, primary_cell_height, pPath)
    IN IF definitely(covers(set, d, box)) THEN pBinaryTreeNode
       ELSE IF ~possibly(overlaps(set, d, box)) THEN make_leaf(pBinaryTreeNode, "F")
       ELSE IF Len(pPath) < max_mince_depth
       THEN LET s == split(pBinaryTreeNode)
            IN rejoin(s,
                  _inner_restrict_open(d, left_node(s), primary_cell_height,
                      max_mince_depth, set, Append(pPath, FALSE)),
                  _inner_restrict_open(d, right_node(s), primary_cell_height,
                      max_mince_depth, set, Append(pPath, TRUE)))
       ELSE disable_node(pBinaryTreeNode)

\* _outer_remove( ..., const SetCheckerInterface& checker, pPath )
RECURSIVE _outer_remove_checker(_, _, _, _, _, _)
_outer_remove_checker(d, pBinaryTreeNode, primary_cell_height, max_mince_depth, set, pPath) ==
    LET test == check(set, d, cell_box(d, primary_cell_height, pPath))
    IN IF ~possibly(test) THEN pBinaryTreeNode
       ELSE IF definitely(test) THEN make_leaf(pBinaryTreeNode, "F")
       ELSE IF Len(pPath) < max_mince_depth
       THEN LET s == split(pBinaryTreeNode)
            IN rejoin(s,
                  _outer_remove_checker(d, left_node(s), primary_cell_height,
                      max_mince_depth, set, Append(pPath, FALSE)),
                  _outer_remove_checker(d, right_node(s), primary_cell_height,
                      max_mince_depth, set, Append(pPath, TRUE)))
       ELSE disable_node(pBinaryTreeNode)

\* _outer_remove( ..., const OpenSetInterface& set, pPath )
RECURSIVE _outer_remove_open(_, _, _, _, _, _)
_outer_remove_open(d, pBinaryTreeNode, primary_cell_height, max_mince_depth, set, pPath) ==
    LET box == cell_box(d, primary_cell_height, pPath)
    IN IF ~possibly(overlaps(set, d, box)) THEN pBinaryTreeNode
       ELSE IF definitely(covers(set, d, box)) THEN make_leaf(pBinaryTreeNode, "F")
       ELSE IF Len(pPath) < max_mince_depth
       THEN LET s == split(pBinaryTreeNode)
            IN rejoin(s,
                  _outer_remove_open(d, left_node(s), primary_cell_height,
                      max_mince_depth, set, Append(pPath, FALSE)),
                  _outer_remove_open(d, right_node(s), primary_cell_height,
                      max_mince_depth, set, Append(pPath, TRUE)))
       ELSE disable_node(pBinaryTreeNode)

\* _inner_remove( ..., const SetCheckerInterface& checker, pPath )
RECURSIVE _inner_remove_checker(_, _, _, _, _, _)
_inner_remove_checker(d, pBinaryTreeNode, primary_cell_height, max_mince_depth, set, pPath) ==
    LET test == check(set, d, cell_box(d, primary_cell_height, pPath))
    IN IF ~possibly(test) THEN pBinaryTreeNode
       ELSE IF definitely(test) THEN make_leaf(pBinaryTreeNode, "F")
       ELSE IF Len(pPath) < max_mince_depth
       THEN LET s == split(pBinaryTreeNode)
            IN rejoin(s,
                  _inner_remove_checker(d, left_node(s), primary_cell_height,
                      max_mince_depth, set, Append(pPath, FALSE)),
                  _inner_remove_checker(d, right_node(s), primary_cell_height,
                      max_mince_depth, set, Append(pPath, TRUE)))
       ELSE pBinaryTreeNode

\* _inner_remove( ..., const OpenSetInterface& set, pPath )
RECURSIVE _inner_remove_open(_, _, _, _, _, _)
_inner_remove_open(d, pBinaryTreeNode, primary_cell_height, max_mince_depth, set, pPath) ==
    LET box == cell_box(d, primary_cell_height, pPath)
    IN IF ~possibly(overlaps(set, d, box)) THEN pBinaryTreeNode
       ELSE IF definitely(covers(set, d, box)) THEN make_leaf(pBinaryTreeNode, "F")
       ELSE IF Len(pPath) < max_mince_depth
       THEN LET s == split(pBinaryTreeNode)
            IN rejoin(s,
                  _inner_remove_open(d, left_node(s), primary_cell_height,
                      max_mince_depth, set, Append(pPath, FALSE)),
                  _inner_remove_open(d, right_node(s), primary_cell_height,
                      max_mince_depth, set, Append(pPath, TRUE)))
       ELSE pBinaryTreeNode

\* The depth a checker's accuracy stands for in this paving.
accuracy_depth(d, p, accuracy) ==
    zero_cell_subdivisions_to_tree_subdivisions(d, accuracy, p.height, 0)

\* outer_restrict( const OpenSetInterface& set )
outer_restrict_open(d, p, set) ==
    IF ~empty(p)
    THEN [p EXCEPT !.tree = _outer_restrict_open(d, p.tree, p.height, depth(p.tree), set, <<>>)]
    ELSE p

\* outer_restrict( const SetCheckerInterface& checker, const uint accuracy )
outer_restrict_checker(d, p, checker, accuracy) ==
    IF ~empty(p)
    THEN [p EXCEPT !.tree = _outer_restrict_checker(d, p.tree, p.height,
                                accuracy_depth(d, p, accuracy), checker, <<>>)]
    ELSE p

\* inner_restrict( const OpenSetInterface& set )
inner_restrict_open(d, p, set) ==
    IF ~empty(p)
    THEN [p EXCEPT !.tree = _inner_restrict_open(d, p.tree, p.height, depth(p.tree), set, <<>>)]
    ELSE p

\* inner_restrict( const SetCheckerInterface& checker, const uint accuracy )
inner_restrict_checker(d, p, checker, accuracy) ==
    IF ~empty(p)
    THEN [p EXCEPT !.tree = _inner_restrict_checker(d, p.tree, p.height,
                                accuracy_depth(d, p, accuracy), checker, <<>>)]
    ELSE p

\* outer_remove( const OpenSetInterface& set )
outer_remove_open(d, p, set) ==
    IF ~empty(p)
    THEN [p EXCEPT !.tree = _outer_remove_open(d, p.tree, p.height, depth(p.tree), set, <<>>)]
    ELSE p

\* outer_remove( const SetCheckerInterface& checker, const uint accuracy )
outer_remove_checker(d, p, checker, accuracy) ==
    IF ~empty(p)
    THEN [p EXCEPT !.tree = _outer_remove_checker(d, p.tree, p.height,
                                accuracy_depth(d, p, accuracy), checker, <<>>)]
    ELSE p

\* inner_remove( const OpenSetInterface& set )
inner_remove_open(d, p, set) ==
    IF ~empty(p)
    THEN [p EXCEPT !.tree = _inner_remove_open(d, p.tree, p.height, depth(p.tree), set, <<>>)]
    ELSE p

\* inner_remove( const SetCheckerInterface& checker, const uint accuracy )
inner_remove_checker(d, p, checker, accuracy) ==
    IF ~empty(p)
    THEN [p EXCEPT !.tree = _inner_remove_checker(d, p.tree, p.height,
                                accuracy_depth(d, p, accuracy), checker, <<>>)]
    ELSE p

-----------------------------------------------------------------------------
(* What a paving denotes.  The region of a paving is the set of unit boxes *)
(* of the lattice (named by their lower corners) that lie in the box of    *)
(* one of its enabled leaves.                                              *)

Units(box) ==
    IF Len(box) = 1
    THEN {<<x>> : x \in box[1].lo .. box[1].hi - 1}
    ELSE {<<x, y>> : x \in box[1].lo .. box[1].hi - 1, y \in box[2].lo .. box[2].hi - 1}

UnitBox(u) == [i \in DOMAIN u |-> [lo |-> u[i], hi |-> u[i] + 1]]

RECURSIVE enabled_leaves(_)
enabled_leaves(n) ==
    IF is_leaf(n) THEN (IF is_enabled(n) THEN {<<>>} ELSE {})
    ELSE {<<FALSE>> \o w : w \in enabled_leaves(left_node(n))}
         \cup {<<TRUE>> \o w : w \in enabled_leaves(right_node(n))}

EnabledCells(d, p) ==
    {cell_box(d, p.height, p.word \o w) : w \in enabled_leaves(p.tree)}

Region(d, p) == UNION {Units(b) : b \in EnabledCells(d, p)}

\* The depth the specification gives a driver: n * d + h * d.
max_tree_depth(d, theHeight, n) == n * d + theHeight * d

-----------------------------------------------------------------------------
(* The pavings and sets of the initial states.                             *)

RECURSIVE TreesUpTo(_)
TreesUpTo(k) ==
    IF k = 0 THEN {Leaf("T"), Leaf("F")}
    ELSE {Leaf("T"), Leaf("F")}
         \cup UNION {{Node("I", l, r) : l \in TreesUpTo(i), r \in TreesUpTo(k - 1 - i)} :
                     i \in 0 .. k - 1}

RECURSIVE AnswersUpTo(_)
AnswersUpTo(k) ==
    LET final == {[label |-> a, kids |-> <<>>] : a \in {"in", "out", "cut", "unk"}}
    IN IF k = 0 THEN final
       ELSE final
            \cup UNION {{[label |-> a, kids |-> <<l, r>>] :
                           a \in {"cut", "unk"},
                           l \in AnswersUpTo(i), r \in AnswersUpTo(k - 1 - i)} :
                        i \in 0 .. k - 1}

Trees == TreesUpTo(MaxNodes)
GridTreeSets == {GridTreeSet(h, t) : h \in Heights, t \in Trees}
Sets == [height : Heights, open : BOOLEAN, answers : AnswersUpTo(MaxOracleNodes)]

NoCall == [op |-> "none"]
NoPaving == GridTreeSet(0, Leaf("F"))
NoSet == [height |-> 0, open |-> FALSE, answers |-> [label |-> "unk", kids |-> <<>>]]

-----------------------------------------------------------------------------
(* The approximation calls on one paving with one set.                     *)

InitApprox ==
    /\ dim \in Dimensions
    /\ paving \in GridTreeSets
    /\ other = NoPaving
    /\ theSet \in Sets
    /\ call = NoCall

Called(op, n) == [op |-> op, pre |-> paving, n |-> n]

AdjoinOuterApproximation ==
    /\ call = NoCall
    /\ \E numSubdivInDim \in Subdivisions :
         /\ paving' = adjoin_outer_approximation(dim, paving, theSet, theSet.height,
                                                 numSubdivInDim)
         /\ call' = Called("adjoin_outer_approximation", numSubdivInDim)
    /\ UNCHANGED <<dim, other, theSet>>

AdjoinLowerApproximation ==
    /\ call = NoCall
    /\ \E numSubdivInDim \in Subdivisions :
         /\ paving' = adjoin_lower_approximation(dim, paving, theSet, theSet.height,
                                                 numSubdivInDim)
         /\ call' = Called("adjoin_lower_approximation", numSubdivInDim)
    /\ UNCHANGED <<dim, other, theSet>>

AdjoinInnerApproximation ==
    /\ call = NoCall
    /\ theSet.open
    /\ \E numSubdivInDim \in Subdivisions :
         /\ paving' = adjoin_inner_approximation(dim, paving, theSet, theSet.height,
                                                 numSubdivInDim)
         /\ call' = Called("adjoin_inner_approximation", numSubdivInDim)
    /\ UNCHANGED <<dim, other, theSet>>

NextApprox ==
    \/ AdjoinOuterApproximation
    \/ AdjoinLowerApproximation
    \/ AdjoinInnerApproximation

SpecApprox == InitApprox /\ [][NextApprox]_vars

-----------------------------------------------------------------------------
(* Claims about the approximation calls.                                   *)

\* The points of the largest set the answers of theSet are sound for: the
\* unit boxes that lie in no box the set calls definitely disjoint.  Any set
\* disjoint( box ) is sound for is a subset of it.
PointsOf(d, set) ==
    {u \in Units(primary_cell_lattice_box(set.height, d)) :
        ~definitely(disjoint(set, d, UnitBox(u)))}

\* The cells at tree depth k under the primary cell of the given height.
CellsAtDepth(d, theHeight, k) == {cell_box(d, theHeight, w) : w \in WordsOfLength(k)}

InsideEnabledLeaf(d, p, box) == \E b \in EnabledCells(d, p) : box_inside(box, b)

Prefixes(w) == {SubSeq(w, 1, k) : k \in 0 .. Len(w)}
ProperPrefixes(w) == {SubSeq(w, 1, k) : k \in 0 .. Len(w) - 1}

\* The subtree a tree holds for the cell a path names: a leaf stands for every
\* cell below it.
RECURSIVE cell_subtree(_, _)
cell_subtree(n, path) ==
    IF path = <<>> \/ is_leaf(n) THEN n
    ELSE cell_subtree(child(n, Head(path)), Tail(path))

\* The approximation calls hand their driver the node align_with_cell returns:
\* the tree under the primary cell of the set before the driver ran, the same
\* after it, and whether an enabled cell stopped the alignment.
Aligned == align_with_cell(dim, call.pre, theSet.height, TRUE, FALSE)
DriverRan == ~Aligned.has_stopped
TreeBefore == aligned_node(Aligned)
TreeAfter == subtree_at(paving.tree, Aligned.at)
ApproxDepth == max_tree_depth(dim, theSet.height, call.n)
SetCell(w) == cell_box(dim, theSet.height, w)

\* C2: every unit box adjoin_inner_approximation turns from not enabled to
\* enabled lies in a cell of depth at most D for which covers answered
\* definitely true, and in a cell at depth D for which covers is not definitely
\* true nothing becomes enabled.
C2_InnerApproximationIsSubset ==
    call.op = "adjoin_inner_approximation" =>
        LET before == Region(dim, call.pre)
            after == Region(dim, paving)
        IN /\ (after \ before) \subseteq Units(SetCell(<<>>))
           /\ \A w \in WordsOfLength(ApproxDepth) :
                (Units(SetCell(w)) \cap (after \ before) # {}) =>
                    \E v \in Prefixes(w) : definitely(covers(theSet, dim, SetCell(v)))
           /\ \A w \in WordsOfLength(ApproxDepth) :
                ~definitely(covers(theSet, dim, SetCell(w))) =>
                    (Units(SetCell(w)) \cap after) \subseteq before

\* C2 witness: the call ran with a subdivision on a paving that was not empty
\* and enabled something new, while a cell at depth D that the set possibly
\* overlaps and does not definitely cover stayed without enabled boxes.
C2_Witness ==
    /\ call.op = "adjoin_inner_approximation"
    /\ call.n > 0
    /\ Region(dim, call.pre) # {}
    /\ Region(dim, paving) # Region(dim, call.pre)
    /\ \E c \in CellsAtDepth(dim, theSet.height, ApproxDepth) :
          /\ ~definitely(covers(theSet, dim, c))
          /\ possibly(overlaps(theSet, dim, c))
          /\ Units(c) \cap Region(dim, paving) = {}

\* C3: adjoin_lower_approximation changes what the tree holds for a cell only
\* if overlaps is definitely true for every cell above it, and makes a cell at
\* depth D an enabled leaf only if overlaps is definitely true for it too; for
\* an open set a cell reached with covers definitely true becomes one enabled
\* cell minced to depth D; a cell whose overlaps answer is not definitely true
\* keeps its whole subtree.
C3_LowerApproximation ==
    (call.op = "adjoin_lower_approximation" /\ DriverRan) =>
        /\ \A w \in Words(ApproxDepth) :
              cell_subtree(TreeAfter, w) # cell_subtree(TreeBefore, w) =>
                 \A v \in ProperPrefixes(w) : definitely(overlaps(theSet, dim, SetCell(v)))
        /\ \A w \in WordsOfLength(ApproxDepth) :
              (cell_subtree(TreeAfter, w) = Leaf("T") /\ cell_subtree(TreeBefore, w) # Leaf("T"))
                 => definitely(overlaps(theSet, dim, SetCell(w)))
        /\ \A w \in Words(ApproxDepth) :
              ( /\ theSet.open
                /\ definitely(covers(theSet, dim, SetCell(w)))
                /\ \A v \in ProperPrefixes(w) :
                      /\ definitely(overlaps(theSet, dim, SetCell(v)))
                      /\ ~definitely(covers(theSet, dim, SetCell(v))) )
                 => subtree_at(TreeAfter, w) = mince(Leaf("T"), ApproxDepth - Len(w))
        /\ \A w \in Words(ApproxDepth) :
              ~definitely(overlaps(theSet, dim, SetCell(w))) =>
                 cell_subtree(TreeAfter, w) = cell_subtree(TreeBefore, w)

\* C3 witness: the driver ran with a subdivision; a cell at depth D that is
\* not definitely covered became an enabled leaf, and a cell with children of
\* its own whose overlaps answer is not definitely true was reached and kept
\* them.
C3_Witness ==
    /\ call.op = "adjoin_lower_approximation"
    /\ DriverRan
    /\ call.n > 0
    /\ \E w \in WordsOfLength(ApproxDepth) :
          /\ ~definitely(covers(theSet, dim, SetCell(w)))
          /\ cell_subtree(TreeAfter, w) = Leaf("T")
          /\ cell_subtree(TreeBefore, w) # Leaf("T")
    /\ \E w \in Words(ApproxDepth) :
          /\ ~definitely(overlaps(theSet, dim, SetCell(w)))
          /\ \A v \in ProperPrefixes(w) : definitely(overlaps(theSet, dim, SetCell(v)))
          /\ ~is_leaf(cell_subtree(TreeBefore, w))
          /\ cell_subtree(TreeAfter, w) = cell_subtree(TreeBefore, w)

-----------------------------------------------------------------------------
(* Two approximations of one set, from empty pavings, at two numbers of    *)
(* subdivisions: the coarser one into paving, the finer one into other.    *)

EmptyGridTreeSets == {GridTreeSet(h, Leaf("F")) : h \in Heights}

InitRefine ==
    /\ dim \in Dimensions
    /\ paving \in EmptyGridTreeSets
    /\ other = paving
    /\ theSet \in Sets
    /\ call = NoCall

CoarseOuterApproximation ==
    /\ call = NoCall
    /\ \E numSubdivInDim \in Subdivisions :
         /\ paving' = adjoin_outer_approximation(dim, paving, theSet, theSet.height,
                                                 numSubdivInDim)
         /\ call' = Called("adjoin_outer_approximation", numSubdivInDim)
    /\ UNCHANGED <<dim, other, theSet>>

CoarseInnerApproximation ==
    /\ call = NoCall
    /\ theSet.open
    /\ \E numSubdivInDim \in Subdivisions :
         /\ paving' = adjoin_inner_approximation(dim, paving, theSet, theSet.height,
                                                 numSubdivInDim)
         /\ call' = Called("adjoin_inner_approximation", numSubdivInDim)
    /\ UNCHANGED <<dim, other, theSet>>

Refined(numSubdivInDim) ==
    [op |-> call.op, pre |-> call.pre, n |-> call.n, finer |-> numSubdivInDim]

FineOuterApproximation ==
    /\ call.op = "adjoin_outer_approximation"
    /\ "finer" \notin DOMAIN call
    /\ \E numSubdivInDim \in Subdivisions :
         /\ call.n < numSubdivInDim
         /\ other' = adjoin_outer_approximation(dim, other, theSet, theSet.height,
                                                numSubdivInDim)
         /\ call' = Refined(numSubdivInDim)
    /\ UNCHANGED <<dim, paving, theSet>>

FineInnerApproximation ==
    /\ call.op = "adjoin_inner_approximation"
    /\ "finer" \notin DOMAIN call
    /\ \E numSubdivInDim \in Subdivisions :
         /\ call.n < numSubdivInDim
         /\ other' = adjoin_inner_approximation(dim, other, theSet, theSet.height,
                                                numSubdivInDim)
         /\ call' = Refined(numSubdivInDim)
    /\ UNCHANGED <<dim, paving, theSet>>

NextRefine ==
    \/ CoarseOuterApproximation
    \/ CoarseInnerApproximation
    \/ FineOuterApproximation
    \/ FineInnerApproximation

SpecRefine == InitRefine /\ [][NextRefine]_vars

-----------------------------------------------------------------------------
(* The restrict and remove calls on one paving with one checker or open    *)
(* set.  The checker or set answers for the cells of the paving, so it     *)
(* lives in the paving's primary cell; theSet.open tells an                *)
(* OpenSetInterface from a SetCheckerInterface.                            *)

InitRestrictRemove ==
    /\ dim \in Dimensions
    /\ paving \in GridTreeSets
    /\ other = NoPaving
    /\ theSet \in {set \in Sets : set.height = paving.height}
    /\ call = NoCall

CalledWith(op, variant, n) == [op |-> op, variant |-> variant, pre |-> paving, n |-> n]

OuterRestrictChecker ==
    /\ call = NoCall
    /\ ~theSet.open
    /\ \E accuracy \in Subdivisions :
         /\ paving' = outer_restrict_checker(dim, paving, theSet, accuracy)
         /\ call' = CalledWith("outer_restrict", "checker", accuracy)
    /\ UNCHANGED <<dim, other, theSet>>

OuterRestrictOpen ==
    /\ call = NoCall
    /\ theSet.open
    /\ paving' = outer_restrict_open(dim, paving, theSet)
    /\ call' = CalledWith("outer_restrict", "open", 0)
    /\ UNCHANGED <<dim, other, theSet>>

InnerRestrictChecker ==
    /\ call = NoCall
    /\ ~theSet.open
    /\ \E accuracy \in Subdivisions :
         /\ paving' = inner_restrict_checker(dim, paving, theSet, accuracy)
         /\ call' = CalledWith("inner_restrict", "checker", accuracy)
    /\ UNCHANGED <<dim, other, theSet>>

InnerRestrictOpen ==
    /\ call = NoCall
    /\ theSet.open
    /\ paving' = inner_restrict_open(dim, paving, theSet)
    /\ call' = CalledWith("inner_restrict", "open", 0)
    /\ UNCHANGED <<dim, other, theSet>>

OuterRemoveChecker ==
    /\ call = NoCall
    /\ ~theSet.open
    /\ \E accuracy \in Subdivisions :
         /\ paving' = outer_remove_checker(dim, paving, theSet, accuracy)
         /\ call' = CalledWith("outer_remove", "checker", accuracy)
    /\ UNCHANGED <<dim, other, theSet>>

OuterRemoveOpen ==
    /\ call = NoCall
    /\ theSet.open
    /\ paving' = outer_remove_open(dim, paving, theSet)
    /\ call' = CalledWith("outer_remove", "open", 0)
    /\ UNCHANGED <<dim, other, theSet>>

InnerRemoveChecker ==
    /\ call = NoCall
    /\ ~theSet.open
    /\ \E accuracy \in Subdivisions :
         /\ paving' = inner_remove_checker(dim, paving, theSet, accuracy)
         /\ call' = CalledWith("inner_remove", "checker", accuracy)
    /\ UNCHANGED <<dim, other, theSet>>

InnerRemoveOpen ==
    /\ call = NoCall
    /\ theSet.open
    /\ paving' = inner_remove_open(dim, paving, theSet)
    /\ call' = CalledWith("inner_remove", "open", 0)
    /\ UNCHANGED <<dim, other, theSet>>

NextRestrictRemove ==
    \/ OuterRestrictChecker
    \/ OuterRestrictOpen
    \/ InnerRestrictChecker
    \/ InnerRestrictOpen
    \/ OuterRemoveChecker
    \/ OuterRemoveOpen
    \/ InnerRemoveChecker
    \/ InnerRemoveOpen

SpecRestrictRemove == InitRestrictRemove /\ [][NextRestrictRemove]_vars

-----------------------------------------------------------------------------
(* Claims about the restrict and remove calls.  They speak of the unit     *)
(* boxes enabled before and after the call and of what the checker or set  *)
(* reports for the cells of depth at most D that hold them, D being the    *)
(* depth of the accuracy for a checker and the depth of the tree for an    *)
(* open set.                                                               *)

MinceDepth ==
    IF call.variant = "checker" THEN max_tree_depth(dim, call.pre.height, call.n)
    ELSE depth(call.pre.tree)

DefinitelyInside(box) ==
    IF call.variant = "checker" THEN definitely(check(theSet, dim, box))
    ELSE definitely(covers(theSet, dim, box))

DefinitelyOutside(box) ==
    IF call.variant = "checker" THEN ~possibly(check(theSet, dim, box))
    ELSE ~possibly(overlaps(theSet, dim, box))

Undecided(box) == ~DefinitelyInside(box) /\ ~DefinitelyOutside(box)

PavingCell(w) == cell_box(dim, call.pre.height, w)

\* The cell a word of length D names, or a cell above it, is reported inside /
\* outside.
ReportedInside(w) == \E v \in Prefixes(w) : DefinitelyInside(PavingCell(v))
ReportedOutside(w) == \E v \in Prefixes(w) : DefinitelyOutside(PavingCell(v))

\* The previously enabled unit boxes of a cell are all retained / all dropped.
Retained(w) ==
    (Units(PavingCell(w)) \cap Region(dim, call.pre)) \subseteq Region(dim, paving)
Dropped(w) ==
    Units(PavingCell(w)) \cap Region(dim, call.pre) \cap Region(dim, paving) = {}
WasEnabled(w) == Units(PavingCell(w)) \subseteq Region(dim, call.pre)

\* C5 as stated: after outer_remove a previously enabled unit box is retained
\* iff it is not reported definitely inside the removed set, so an enabled
\* cell at the maximum depth with an indeterminate answer stays enabled.
C5_OuterRemoveKeepsPossiblyInside ==
    call.op = "outer_remove" =>
        \A w \in WordsOfLength(MinceDepth) :
            IF ~ReportedInside(w) THEN Retained(w) ELSE Dropped(w)

\* C5 as the code has it: after outer_remove a previously enabled unit box is
\* retained iff it is reported definitely outside the removed set, so an
\* enabled cell at the maximum depth with an indeterminate answer is disabled.
C5_OuterRemoveKeepsDefinitelyOutside ==
    call.op = "outer_remove" =>
        \A w \in WordsOfLength(MinceDepth) :
            IF ReportedOutside(w) THEN Retained(w) ELSE Dropped(w)

\* C5 witness: outer_remove disabled an enabled cell at the maximum depth whose
\* answer is indeterminate and retained another part of the paving.
C5_Witness ==
    /\ call.op = "outer_remove"
    /\ Region(dim, paving) # {}
    /\ \E w \in WordsOfLength(MinceDepth) :
          Undecided(PavingCell(w)) /\ WasEnabled(w) /\ Dropped(w)

\* C6 as stated: after inner_remove a previously enabled unit box is retained
\* iff it is reported definitely outside the removed set, so an enabled cell
\* at the maximum depth with an indeterminate answer is disabled.
C6_InnerRemoveDropsPossiblyInside ==
    call.op = "inner_remove" =>
        \A w \in WordsOfLength(MinceDepth) :
            IF ReportedOutside(w) THEN Retained(w) ELSE Dropped(w)

\* C6 as the code has it: after inner_remove a previously enabled unit box is
\* retained iff it is not reported definitely inside the removed set, so an
\* enabled cell at the maximum depth with an indeterminate answer stays
\* enabled.
C6_InnerRemoveDropsDefinitelyInside ==
    call.op = "inner_remove" =>
        \A w \in WordsOfLength(MinceDepth) :
            IF ~ReportedInside(w) THEN Retained(w) ELSE Dropped(w)

\* C6 witness: inner_remove retained an enabled cell at the maximum depth whose
\* answer is indeterminate and disabled another part of the paving.
C6_Witness ==
    /\ call.op = "inner_remove"
    /\ Region(dim, paving) # Region(dim, call.pre)
    /\ \E w \in WordsOfLength(MinceDepth) :
          Undecided(PavingCell(w)) /\ WasEnabled(w) /\ Retained(w)

\* C7 as stated: after outer_restrict no enabled leaf remains whose box is
\* reported definitely false, and every previously enabled leaf whose box and
\* whose ancestors' boxes are not reported definitely false is still enabled,
\* also for leaves deeper than the maximum depth.
C7_OuterRestrictEveryLeaf ==
    call.op = "outer_restrict" =>
        /\ \A w \in enabled_leaves(paving.tree) : ~DefinitelyOutside(PavingCell(w))
        /\ \A w \in enabled_leaves(call.pre.tree) :
              (\A v \in Prefixes(w) : ~DefinitelyOutside(PavingCell(v))) =>
                  Units(PavingCell(w)) \subseteq Region(dim, paving)

\* C7 as the code has it: after outer_restrict a previously enabled unit box
\* is retained iff no cell of depth at most D that holds it is reported
\* definitely false; what the checker reports below depth D plays no part.
C7_OuterRestrictToDepth ==
    call.op = "outer_restrict" =>
        /\ Region(dim, paving) \subseteq Region(dim, call.pre)
        /\ \A w \in WordsOfLength(MinceDepth) :
              IF ~ReportedOutside(w) THEN Retained(w) ELSE Dropped(w)

\* C7 witness: outer_restrict kept an enabled cell at the maximum depth whose
\* answer is indeterminate, together with an enabled leaf below it that is
\* reported definitely false.
C7_Witness ==
    /\ call.op = "outer_restrict"
    /\ \E w \in WordsOfLength(MinceDepth) :
          /\ Undecided(PavingCell(w)) /\ WasEnabled(w) /\ Retained(w)
          /\ \E x \in enabled_leaves(paving.tree) :
                /\ w \in ProperPrefixes(x)
                /\ DefinitelyOutside(PavingCell(x))

\* C8 as stated: after inner_restrict every enabled leaf lies within a cell
\* that was enabled before and that is reported definitely true, and the cells
\* whose answer is still indeterminate at the maximum depth are disabled.
C8_InnerRestrictEveryLeaf ==
    call.op = "inner_restrict" =>
        /\ \A w \in enabled_leaves(paving.tree) :
              \E v \in Prefixes(w) : DefinitelyInside(PavingCell(v)) /\ WasEnabled(v)
        /\ \A w \in WordsOfLength(MinceDepth) :
              (~ReportedInside(w) /\ ~ReportedOutside(w)) => Dropped(w)

\* C8 as the code has it: after inner_restrict a unit box is enabled iff it
\* was enabled before and a cell of depth at most D that holds it is reported
\* definitely true; an enabled leaf may be the union of two such cells.
C8_InnerRestrictToDepth ==
    call.op = "inner_restrict" =>
        /\ Region(dim, paving) \subseteq Region(dim, call.pre)
        /\ \A w \in WordsOfLength(MinceDepth) :
              IF ReportedInside(w) THEN Retained(w) ELSE Dropped(w)

\* C8 witness: inner_restrict disabled an enabled cell at the maximum depth
\* whose answer is indeterminate and retained an enabled cell that is reported
\* definitely true.
C8_Witness ==
    /\ call.op = "inner_restrict"
    /\ \E w \in WordsOfLength(MinceDepth) :
          Undecided(PavingCell(w)) /\ WasEnabled(w) /\ Dropped(w)
    /\ \E w \in WordsOfLength(MinceDepth) :
          ReportedInside(w) /\ WasEnabled(w) /\ Retained(w)

-----------------------------------------------------------------------------
(* The set algebra on two pavings: paving is theSet1 (or the set a call    *)
(* mutates), other is theSet2; a GridTreeSet a function returns is kept in *)
(* call.result.                                                            *)

GridTreeSubsets ==
    {[height |-> h, word |-> w, tree |-> t] :
        h \in Heights, w \in Words(MaxWordLen), t \in Trees}

InitAlgebra ==
    /\ dim \in Dimensions
    /\ paving \in GridTreeSubsets
    /\ other \in GridTreeSubsets
    /\ theSet = NoSet
    /\ call = NoCall

Returned(op, result) ==
    [op |-> op, theSet1 |-> paving, theSet2 |-> other, result |-> result]

Join ==
    /\ call = NoCall
    /\ call' = Returned("join", join(dim, paving, other))
    /\ UNCHANGED <<dim, paving, other, theSet>>

Intersection ==
    /\ call = NoCall
    /\ call' = Returned("intersection", intersection(dim, paving, other))
    /\ UNCHANGED <<dim, paving, other, theSet>>

\* paving.restrict( other ), paving being a GridTreeSet
Restrict ==
    /\ call = NoCall
    /\ paving.word = <<>>
    /\ paving' = restrict(dim, paving, other)
    /\ call' = Returned("restrict", paving')
    /\ UNCHANGED <<dim, other, theSet>>

\* paving.restrict( paving )
RestrictToItself ==
    /\ call = NoCall
    /\ paving.word = <<>>
    /\ paving' = restrict(dim, paving, paving)
    /\ call' = [op |-> "restrict_to_itself", theSet1 |-> paving, theSet2 |-> paving,
                result |-> paving']
    /\ UNCHANGED <<dim, other, theSet>>

NextAlgebra ==
    \/ Join
    \/ Intersection
    \/ Restrict
    \/ RestrictToItself

SpecAlgebra == InitAlgebra /\ [][NextAlgebra]_vars

\* C9: join(A, B) is rooted at the larger of the two heights, the region of
\* its enabled leaves is exactly the union of the regions of A and B, and A
\* and B are as they were.
C9_JoinIsUnion ==
    call.op = "join" =>
        /\ call.result.height = Max(call.theSet1.height, call.theSet2.height)
        /\ call.result.word = <<>>
        /\ Region(dim, call.result)
              = Region(dim, call.theSet1) \cup Region(dim, call.theSet2)
        /\ paving = call.theSet1
        /\ other = call.theSet2

\* C9 witness: a join of two sets of different heights, both with a root word,
\* neither region inside the other.
C9_Witness ==
    /\ call.op = "join"
    /\ call.theSet1.height # call.theSet2.height
    /\ call.theSet1.word # <<>>
    /\ call.theSet2.word # <<>>
    /\ ~(Region(dim, call.theSet1) \subseteq Region(dim, call.theSet2))
    /\ ~(Region(dim, call.theSet2) \subseteq Region(dim, call.theSet1))
    /\ Region(dim, call.result) = Region(dim, call.theSet1) \cup Region(dim, call.theSet2)

\* C10: the region of intersection(A, B), and of A after A.restrict(B), is
\* exactly the set of unit boxes enabled in both, and A.restrict(A) leaves A's
\* tree as it was.
C10_IntersectionAndRestrict ==
    /\ call.op \in {"intersection", "restrict"} =>
          Region(dim, call.result)
             = Region(dim, call.theSet1) \cap Region(dim, call.theSet2)
    /\ call.op = "restrict" => paving = call.result
    /\ call.op = "restrict_to_itself" => paving.tree = call.theSet1.tree

\* C10 witness: an intersection of two sets of different heights, the second
\* with a root word, whose regions overlap without one being inside the other.
C10_Witness ==
    /\ call.op = "intersection"
    /\ call.theSet1.height # call.theSet2.height
    /\ call.theSet2.word # <<>>
    /\ Region(dim, call.result) # {}
    /\ Region(dim, call.result) # Region(dim, call.theSet1)
    /\ Region(dim, call.result) # Region(dim, call.theSet2)

-----------------------------------------------------------------------------
(* One call of difference or remove on two pavings of one grid.            *)

Difference ==
    /\ call = NoCall
    /\ call' = Returned("difference", difference(dim, paving, other))
    /\ UNCHANGED <<dim, paving, other, theSet>>

\* difference( paving, paving )
DifferenceOfItself ==
    /\ call = NoCall
    /\ call' = [op |-> "difference_of_itself", theSet1 |-> paving, theSet2 |-> paving,
                result |-> difference(dim, paving, paving)]
    /\ UNCHANGED <<dim, paving, other, theSet>>

\* paving.remove( other ), paving being a GridTreeSet
Remove ==
    /\ call = NoCall
    /\ paving.word = <<>>
    /\ paving' = remove(dim, paving, other)
    /\ call' = Returned("remove", paving')
    /\ UNCHANGED <<dim, other, theSet>>

NextDifference ==
    \/ Difference
    \/ DifferenceOfItself
    \/ Remove

SpecDifference == InitAlgebra /\ [][NextDifference]_vars

\* C11: the region of difference(A, B), and of A after A.remove(B), is exactly
\* the set of unit boxes enabled in A and not in B, and difference(A, A) has no
\* enabled leaf.
C11_DifferenceAndRemove ==
    /\ call.op \in {"difference", "remove"} =>
          Region(dim, call.result)
             = Region(dim, call.theSet1) \ Region(dim, call.theSet2)
    /\ call.op = "remove" => paving = call.result
    /\ call.op = "difference_of_itself" => enabled_leaves(call.result.tree) = {}

\* C11 witness: a difference of two sets of different heights, the second with
\* a root word and children below it, that takes away a part of the first set
\* and leaves a part of it.
C11_Witness ==
    /\ call.op = "difference"
    /\ call.theSet1.height # call.theSet2.height
    /\ call.theSet2.word # <<>>
    /\ ~is_leaf(call.theSet2.tree)
    /\ Region(dim, call.result) # {}
    /\ Region(dim, call.result) # Region(dim, call.theSet1)

-----------------------------------------------------------------------------
(* One call of a predicate on two GridTreeSubsets of one grid.             *)

Subset ==
    /\ call = NoCall
    /\ call' = Returned("subset", subset(dim, paving, other))
    /\ UNCHANGED <<dim, paving, other, theSet>>

Overlap ==
    /\ call = NoCall
    /\ call' = Returned("overlap", overlap(dim, paving, other))
    /\ UNCHANGED <<dim, paving, other, theSet>>

Disjoint ==
    /\ call = NoCall
    /\ call' = Returned("disjoint", disjoint_subsets(dim, paving, other))
    /\ UNCHANGED <<dim, paving, other, theSet>>

NextPredicates ==
    \/ Subset
    \/ Overlap
    \/ Disjoint

SpecPredicates == InitAlgebra /\ [][NextPredicates]_vars

\* C12: subset(S1, S2) returns true iff every unit box of an enabled leaf of
\* S1 lies in an enabled leaf of S2, whatever the heights and root words,
\* empty sets included.
C12_SubsetIsInclusion ==
    call.op = "subset" =>
        (call.result <=> Region(dim, call.theSet1) \subseteq Region(dim, call.theSet2))

\* The root cells of the two operands of the call are nested: one of the two
\* paths from the common primary cell is a prefix of the other.
RootCellsNested ==
    LET paths == common_primary_cell_path(dim, call.theSet1, call.theSet2)
    IN is_prefix(paths[1], paths[2]) \/ is_prefix(paths[2], paths[1])

\* C12, the part the code has: subset(S1, S2) returns true iff every unit box
\* of an enabled leaf of S1 lies in an enabled leaf of S2, whenever the root
\* cells are nested or S1 has an enabled leaf.
C12_SubsetOfNestedOrNonEmpty ==
    (call.op = "subset" /\ (RootCellsNested \/ has_enabled(call.theSet1.tree))) =>
        (call.result <=> Region(dim, call.theSet1) \subseteq Region(dim, call.theSet2))

\* C12, the failing case: subset(S1, S2) was called on an S1 with no enabled
\* leaf and an S2 whose root cell is apart from that of S1, and returned false.
C12_EmptyApartIsNoSubset ==
    /\ call.op = "subset"
    /\ ~has_enabled(call.theSet1.tree)
    /\ ~RootCellsNested
    /\ call.result = FALSE

\* Some enabled leaf cell of the one set lies inside an enabled leaf cell of
\* the other.
NestedEnabledCells(theSet1, theSet2) ==
    \E a \in EnabledCells(dim, theSet1), b \in EnabledCells(dim, theSet2) :
        box_inside(a, b) \/ box_inside(b, a)

\* C13: overlap(S1, S2) returns true iff an enabled leaf cell of S1 and one
\* of S2 are nested, whatever the heights and root words; it gives the same
\* with its arguments exchanged, disjoint(S1, S2) is its negation, and
\* subset(S1, S2) with an S1 that has an enabled leaf implies it.
C13_OverlapIsSharedInterior ==
    /\ call.op = "overlap" =>
          /\ call.result <=> NestedEnabledCells(call.theSet1, call.theSet2)
          /\ call.result <=> (Region(dim, call.theSet1) \cap Region(dim, call.theSet2) # {})
          /\ call.result = overlap(dim, call.theSet2, call.theSet1)
          /\ (subset(dim, call.theSet1, call.theSet2) /\ has_enabled(call.theSet1.tree))
                => call.result
    /\ call.op = "disjoint" =>
          call.result = ~overlap(dim, call.theSet1, call.theSet2)

\* C13 witness: overlap returned true for two sets of different heights whose
\* root cells differ, the first not a subset of the second and the second
\* with a disabled leaf.
C13_Witness ==
    /\ call.op = "overlap"
    /\ call.result = TRUE
    /\ call.theSet1.height # call.theSet2.height
    /\ LET paths == common_primary_cell_path(dim, call.theSet1, call.theSet2)
       IN paths[1] # paths[2]
    /\ ~subset(dim, call.theSet1, call.theSet2)
    /\ ~all_enabled(call.theSet2.tree)

-----------------------------------------------------------------------------
(* Mincing and recombining the tree of a paving, in any order.             *)

MaxMinceDepth == 3

InitTree ==
    /\ dim \in Dimensions
    /\ paving \in GridTreeSets
    /\ other = NoPaving
    /\ theSet = NoSet
    /\ call = NoCall

\* paving.mince( k )
Mince ==
    /\ \E k \in 0 .. MaxMinceDepth :
         /\ paving' = [paving EXCEPT !.tree = mince(paving.tree, k)]
         /\ call' = Called("mince", k)
    /\ UNCHANGED <<dim, other, theSet>>

\* paving.recombine()
Recombine ==
    /\ paving' = [paving EXCEPT !.tree = recombine(paving.tree)]
    /\ call' = Called("recombine", 0)
    /\ UNCHANGED <<dim, other, theSet>>

NextTree ==
    \/ Mince
    \/ Recombine

SpecTree == InitTree /\ [][NextTree]_vars

\* The paths of the disabled leaves of a tree.
RECURSIVE disabled_leaves(_)
disabled_leaves(n) ==
    IF is_leaf(n) THEN (IF is_disabled(n) THEN {<<>>} ELSE {})
    ELSE {<<FALSE>> \o w : w \in disabled_leaves(left_node(n))}
         \cup {<<TRUE>> \o w : w \in disabled_leaves(right_node(n))}

\* The set a tree stands for, as the words of one length, long enough for
\* every tree of SpecTree, that pass through an enabled leaf.
TreeRegion(n) ==
    {w \in WordsOfLength(MaxNodes + MaxMinceDepth) :
        \E v \in enabled_leaves(n) : is_prefix(v, w)}

\* Some node of the tree has two leaves of equal enabledness as children.
RECURSIVE HasEqualLeafPair(_)
HasEqualLeafPair(n) ==
    /\ ~is_leaf(n)
    /\ \/ /\ is_leaf(left_node(n)) /\ is_leaf(right_node(n))
          /\ left_node(n).en = right_node(n).en
       \/ HasEqualLeafPair(left_node(n))
       \/ HasEqualLeafPair(right_node(n))

\* C14: after recombine, recombining again changes nothing, no node has two
\* leaf children of equal enabledness, and the enabled region is what it was.
C14_RecombineIdempotentCanonical ==
    call.op = "recombine" =>
        /\ recombine(paving.tree) = paving.tree
        /\ ~HasEqualLeafPair(paving.tree)
        /\ TreeRegion(paving.tree) = TreeRegion(call.pre.tree)
        /\ Region(dim, paving) = Region(dim, call.pre)

\* C14 witness: recombine merged leaves on two levels of a tree and left a
\* tree that still has children.
C14_Witness ==
    /\ call.op = "recombine"
    /\ depth(call.pre.tree) - depth(paving.tree) >= 2
    /\ ~is_leaf(paving.tree)

\* C15: after mince(k) the recombined tree is the recombined tree of before,
\* no disabled leaf was split, every enabled leaf is at depth k or more, and
\* the enabled region is what it was.
C15_MincePreservesSet ==
    call.op = "mince" =>
        /\ recombine(paving.tree) = recombine(call.pre.tree)
        /\ \A w \in disabled_leaves(call.pre.tree) : subtree_at(paving.tree, w) = Leaf("F")
        /\ \A w \in enabled_leaves(paving.tree) : Len(w) >= call.n
        /\ TreeRegion(paving.tree) = TreeRegion(call.pre.tree)

\* C15 witness: mince(k), k at least 2, split an enabled leaf above depth k
\* in a tree that has a disabled leaf above depth k as well.
C15_Witness ==
    /\ call.op = "mince"
    /\ call.n >= 2
    /\ \E w \in enabled_leaves(call.pre.tree) : Len(w) < call.n /\ Len(w) > 0
    /\ \E w \in disabled_leaves(call.pre.tree) : Len(w) < call.n
    /\ paving.tree # call.pre.tree

-----------------------------------------------------------------------------
(* Persistence: export_to_file writes the tree of a paving to a stream of  *)
(* bytes and empties the paving; import_from_file reads a stream into a    *)
(* paving.  The stream is kept in the record of the call.                  *)

\* tribool || as used in BinaryTreeNode::operator==
tri_or(a, b) == IF a = "T" \/ b = "T" THEN "T"
                ELSE IF a = "F" /\ b = "F" THEN "F" ELSE "I"

\* A bool as a tribool, and the byte fputc writes for a bool.
as_tribool(b) == IF b THEN "T" ELSE "F"
as_byte(b) == IF b THEN 1 ELSE 0

\* BinaryTreeNode::operator== and is_equal_nodes.  The two child pointers of
\* a node are both NULL or both set.
RECURSIVE is_equal_nodes(_, _)
is_equal_nodes(pFirstNode, pSecondNode) ==
    LET flags == tri_or(tri_eq(pFirstNode.en, pSecondNode.en),
                        as_tribool(pFirstNode.en = "I" /\ pSecondNode.en = "I"))
    IN IF is_leaf(pFirstNode) /\ is_leaf(pSecondNode) THEN definitely(flags)
       ELSE IF is_leaf(pFirstNode) \/ is_leaf(pSecondNode) THEN FALSE
       ELSE definitely(
              tri_and(tri_and(flags,
                  as_tribool(is_equal_nodes(left_node(pFirstNode), left_node(pSecondNode)))),
                  as_tribool(is_equal_nodes(right_node(pFirstNode), right_node(pSecondNode)))))

\* remove_to_file( file ): the bytes written, in order.  The node is left
\* without children and with the flag it had.
RECURSIVE remove_to_file(_)
remove_to_file(n) ==
    IF is_leaf(n) THEN <<as_byte(FALSE), as_byte(definitely(n.en))>>
    ELSE <<as_byte(TRUE)>> \o remove_to_file(left_node(n)) \o remove_to_file(right_node(n))

\* add_enabled_from_file( file ): the node after the call and the bytes not
\* yet read.  The streams read are those export_to_file wrote.
RECURSIVE add_enabled_from_file(_, _)
add_enabled_from_file(n, file) ==
    LET hasLeaves == Head(file)
    IN IF hasLeaves = 0
       THEN [node |-> [n EXCEPT !.en = as_tribool(file[2] # 0)],
             file |-> Tail(Tail(file))]
       ELSE LET l == add_enabled_from_file(Leaf(n.en), Tail(file))
                r == add_enabled_from_file(Leaf(n.en), l.file)
            IN [node |-> [n EXCEPT !.kids = <<l.node, r.node>>], file |-> r.file]

\* A sound import, for comparison: a node that gets children is flagged
\* indeterminate, as split does.
RECURSIVE add_split_from_file(_, _)
add_split_from_file(n, file) ==
    LET hasLeaves == Head(file)
    IN IF hasLeaves = 0
       THEN [node |-> [n EXCEPT !.en = as_tribool(file[2] # 0)],
             file |-> Tail(Tail(file))]
       ELSE LET l == add_split_from_file(Leaf(n.en), Tail(file))
                r == add_split_from_file(Leaf(n.en), l.file)
            IN [node |-> Node("I", l.node, r.node), file |-> r.file]

\* set_unknown_unchecked(): the flag becomes indeterminate, no children.
set_unknown_unchecked(n) == Leaf("I")

InitPersistence ==
    /\ dim \in Dimensions
    /\ paving \in GridTreeSets
    /\ other = GridTreeSet(paving.height, Leaf("F"))
    /\ theSet = NoSet
    /\ call = NoCall

\* paving.export_to_file( filename )
ExportToFile ==
    /\ call = NoCall
    /\ paving' = [paving EXCEPT !.tree = set_unknown_unchecked(paving.tree)]
    /\ call' = [op |-> "export_to_file", pre |-> paving,
                file |-> remove_to_file(paving.tree)]
    /\ UNCHANGED <<dim, other, theSet>>

\* other.import_from_file( filename ), other being a fresh paving; the file
\* is removed.
ImportFromFile ==
    /\ call.op = "export_to_file"
    /\ other' = [other EXCEPT !.tree = add_enabled_from_file(other.tree, call.file).node]
    /\ call' = [op |-> "import_from_file", pre |-> call.pre,
                file |-> add_enabled_from_file(other.tree, call.file).file]
    /\ UNCHANGED <<dim, paving, theSet>>

NextPersistence ==
    \/ ExportToFile
    \/ ImportFromFile

SpecPersistence == InitPersistence /\ [][NextPersistence]_vars

\* C16: exporting a tree whose leaves are enabled or disabled and importing
\* the stream into a fresh paving gives a tree equal to it under
\* BinaryTreeNode equality, internal nodes indeterminate, and export leaves
\* the exporting paving a single indeterminate leaf.
C16_RoundTripPersistence ==
    /\ call.op = "export_to_file" => paving.tree = Leaf("I")
    /\ call.op = "import_from_file" =>
          /\ is_equal_nodes(other.tree, call.pre.tree)
          /\ other.tree = call.pre.tree

\* C16, the failing case: a tree with children was exported and imported,
\* and the imported root has children and the disabled flag of the fresh
\* paving.
C16_ImportedNodeKeepsFlag ==
    /\ call.op = "import_from_file"
    /\ ~is_leaf(call.pre.tree)
    /\ ~is_leaf(other.tree)
    /\ other.tree.en = "F"
    /\ ~is_equal_nodes(other.tree, call.pre.tree)

\* C16, the part the code has: the export empties the paving, the import
\* reads the whole stream, and the imported tree has the shape and the leaves
\* of the exported one: it is what a sound import gives, up to the flags of
\* the nodes with children.
C16_RoundTripOfLeaves ==
    /\ call.op = "export_to_file" => paving.tree = Leaf("I")
    /\ call.op = "import_from_file" =>
          /\ call.file = <<>>
          /\ remove_to_file(other.tree) = remove_to_file(call.pre.tree)
          /\ enabled_leaves(other.tree) = enabled_leaves(call.pre.tree)
          /\ disabled_leaves(other.tree) = disabled_leaves(call.pre.tree)
          /\ add_split_from_file(Leaf("F"), remove_to_file(call.pre.tree)).node
                = call.pre.tree

-----------------------------------------------------------------------------
(* Re-rooting a paving to a primary cell at least as high as its own.      *)

\* How far the loop of prepend_tree is followed once it runs past the end of
\* an empty path.
MaxOverrun == 2

ToHeights == 0 .. MaxHeight + 1

\* What prepend_tree can return.  For an empty path rootNodePath.size() - 1
\* wraps around (unsigned), the loop runs on and reads bits past the end of
\* the word: whatever it reads, the old root ends below a chain of at least
\* one split, if the call returns at all.
prepend_tree_outcomes(rootNodePath, oldRootNode) ==
    IF rootNodePath # <<>> THEN {prepend_tree(rootNodePath, oldRootNode)}
    ELSE {prepend_tree(w, oldRootNode) : w \in Words(MaxOverrun) \ {<<>>}}

InitReRoot ==
    /\ dim \in Dimensions
    /\ paving \in GridTreeSets
    /\ other = NoPaving
    /\ theSet = NoSet
    /\ call = NoCall

UpToPrimaryCellCalled(toPCellHeight, returned) ==
    [op |-> "up_to_primary_cell", pre |-> paving, n |-> toPCellHeight,
     returned |-> returned]

\* paving.up_to_primary_cell( toPCellHeight ), the call returns
UpToPrimaryCell ==
    /\ call = NoCall
    /\ \E toPCellHeight \in ToHeights :
         /\ toPCellHeight >= paving.height
         /\ \E pRootTreeNode \in prepend_tree_outcomes(
                   primary_cell_path(dim, toPCellHeight, paving.height), paving.tree) :
               paving' = GridTreeSet(toPCellHeight, pRootTreeNode)
         /\ call' = UpToPrimaryCellCalled(toPCellHeight, TRUE)
    /\ UNCHANGED <<dim, other, theSet>>

\* paving.up_to_primary_cell( toPCellHeight ) with the height the paving has:
\* the loop of prepend_tree ends in an allocation failure or a fault, and the
\* paving is as it was.
UpToPrimaryCellFails ==
    /\ call = NoCall
    /\ primary_cell_path(dim, paving.height, paving.height) = <<>>
    /\ call' = UpToPrimaryCellCalled(paving.height, FALSE)
    /\ UNCHANGED <<dim, paving, other, theSet>>

NextReRoot ==
    \/ UpToPrimaryCell
    \/ UpToPrimaryCellFails

SpecReRoot == InitReRoot /\ [][NextReRoot]_vars

\* The path leads through nodes with children only.
RECURSIVE HasPath(_, _)
HasPath(n, path) ==
    \/ path = <<>>
    \/ ~is_leaf(n) /\ HasPath(child(n, Head(path)), Tail(path))

\* The paving is the paving of before the call under the path to its old
\* primary cell, with disabled leaves off that path and the same enabled
\* lattice boxes.
ReRooted ==
    LET path == primary_cell_path(dim, call.n, call.pre.height)
    IN /\ call.returned
       /\ paving.height = call.n
       /\ paving.word = <<>>
       /\ Len(path) = dim * (call.n - call.pre.height)
       /\ HasPath(paving.tree, path)
       /\ subtree_at(paving.tree, path) = call.pre.tree
       /\ \A k \in 1 .. Len(path) :
             subtree_at(paving.tree, Append(SubSeq(path, 1, k - 1), ~path[k])) = Leaf("F")
       /\ Region(dim, paving) = Region(dim, call.pre)

\* C17: up_to_primary_cell(h') with h' at or above the height h of the paving
\* leaves it rooted at h' with an empty word, the old tree at the end of the
\* path primary_cell_path(d, h', h), disabled leaves off that path, and the same
\* enabled lattice boxes.
C17_ReRootingPreservesDenotation ==
    call.op = "up_to_primary_cell" => ReRooted

\* C17, the failing case: up_to_primary_cell was called with the height the
\* paving has and did not return, or returned a tree that is not the old one.
C17_SameHeightFails ==
    /\ call.op = "up_to_primary_cell"
    /\ call.n = call.pre.height
    /\ ~call.returned \/ paving.tree # call.pre.tree

\* C17, the part the code has: the same for a height strictly above that of
\* the paving.
C17_ReRootingAbove ==
    (call.op = "up_to_primary_cell" /\ call.n > call.pre.height) => ReRooted

\* C17, a call the part the code has is about: a paving with an enabled and a
\* disabled leaf was re-rooted two heights up.
C17_ReRootedTwoUp ==
    /\ call.op = "up_to_primary_cell"
    /\ call.n = call.pre.height + 2
    /\ has_enabled(call.pre.tree)
    /\ ~all_enabled(call.pre.tree)
    /\ ReRooted

-----------------------------------------------------------------------------
(* Iteration over the enabled leaves of a subset.  The cursor is the path  *)
(* from the root of the subset's tree to the current node.                 *)

MaxIterNodes == 3

is_root(cursor) == cursor = <<>>
is_left_child(cursor) == cursor # <<>> /\ ~cursor[Len(cursor)]
is_right_child(cursor) == cursor # <<>> /\ cursor[Len(cursor)]
move_up(cursor) == SubSeq(cursor, 1, Len(cursor) - 1)
move_left(cursor) == Append(cursor, FALSE)
move_right(cursor) == Append(cursor, TRUE)

Found(cursor, isEnabledLeafFound) == [cursor |-> cursor, found |-> isEnabledLeafFound]

\* A search that takes any leaf for an enabled one.
navigate_to_any_leaf(root, cursor, firstLast) ==
    LET nav[c \in Seq(BOOLEAN)] ==
            IF is_leaf(subtree_at(root, c)) THEN Found(c, TRUE)
            ELSE nav[IF firstLast THEN move_left(c) ELSE move_right(c)]
    IN nav[cursor]

\* The cursor and the result after navigate_to( firstLast ) from the cursor
navigate_to(root, cursor, firstLast) ==
    LET back(c) == IF ~is_root(c) THEN move_up(c) ELSE c
        nav[c \in Seq(BOOLEAN)] ==
            IF is_leaf(subtree_at(root, c))
            THEN IF is_enabled(subtree_at(root, c))
                 THEN Found(c, TRUE)
                 ELSE Found(back(c), FALSE)
            ELSE LET first == nav[IF firstLast THEN move_left(c) ELSE move_right(c)]
                 IN IF first.found THEN first
                    ELSE LET second == nav[IF firstLast THEN move_right(first.cursor)
                                                        ELSE move_left(first.cursor)]
                         IN IF second.found THEN second
                            ELSE Found(back(second.cursor), FALSE)
    IN nav[cursor]

Iterator(cursor, is_in_end_state) == [cursor |-> cursor, is_in_end_state |-> is_in_end_state]

\* The iterator after find_next_enabled_leaf() from the cursor
find_next_enabled_leaf(root, cursor) ==
    LET find[c \in Seq(BOOLEAN)] ==
            IF is_left_child(c)
            THEN LET next == navigate_to(root, move_right(move_up(c)), TRUE)
                 IN IF next.found THEN Iterator(next.cursor, FALSE)
                    ELSE find[next.cursor]
            ELSE IF is_right_child(c)
                 THEN find[move_up(c)]
                 ELSE Iterator(c, TRUE)
    IN find[cursor]

\* GridTreeConstIterator( pSubPaving, firstLastNone )
GridTreeConstIterator(p, firstLastNone) ==
    IF firstLastNone = "I" THEN Iterator(<<>>, TRUE)
    ELSE LET first == navigate_to(p.tree, <<>>, definitely(firstLastNone))
         IN Iterator(first.cursor, ~first.found)

begin(p) == GridTreeConstIterator(p, "T")
end(p) == GridTreeConstIterator(p, "I")

increment(p, it) ==
    IF ~it.is_in_end_state THEN find_next_enabled_leaf(p.tree, it.cursor) ELSE it

equal(it, theOtherIterator) ==
    \/ theOtherIterator.is_in_end_state /\ it.is_in_end_state
    \/ /\ ~theOtherIterator.is_in_end_state
       /\ ~it.is_in_end_state
       /\ theOtherIterator.cursor = it.cursor

\* The cell the iterator stands for
dereference(p, it) == [height |-> p.height, word |-> p.word \o it.cursor]

IterTrees == TreesUpTo(MaxIterNodes)

InitIterate ==
    /\ dim \in Dimensions
    /\ paving \in {[height |-> h, word |-> w, tree |-> t] :
                       h \in Heights, w \in Words(MaxWordLen), t \in IterTrees}
    /\ other = NoPaving
    /\ theSet = NoSet
    /\ call = NoCall

\* The iterator of the loop and the cells the body of the loop has been given.
Iterating(op, it, yielded) ==
    [op |-> op, it |-> it,
     yielded |-> IF it.is_in_end_state THEN yielded
                 ELSE Append(yielded, dereference(paving, it))]

\* for( it = paving.begin(), end = paving.end() ; ...
Begin ==
    /\ call = NoCall
    /\ call' = Iterating("begin", begin(paving), <<>>)
    /\ UNCHANGED <<dim, paving, other, theSet>>

\* ... ; it != end ; it++ )
Increment ==
    /\ call.op \in {"begin", "increment"}
    /\ ~equal(call.it, end(paving))
    /\ call' = Iterating("increment", increment(paving, call.it), call.yielded)
    /\ UNCHANGED <<dim, paving, other, theSet>>

NextIterate ==
    \/ Begin
    \/ Increment

SpecIterate == InitIterate /\ [][NextIterate]_vars

\* The loop over the iterator is run on: it is neither left before it began
\* nor between two increments.
FairSpecIterate == SpecIterate /\ WF_vars(Begin) /\ WF_vars(Increment)

\* The paths to the enabled leaves of a tree, left before right.
RECURSIVE EnabledLeavesInOrder(_)
EnabledLeavesInOrder(n) ==
    IF is_leaf(n) THEN (IF is_enabled(n) THEN << <<>> >> ELSE <<>>)
    ELSE LET l == EnabledLeavesInOrder(left_node(n))
             r == EnabledLeavesInOrder(right_node(n))
         IN [i \in 1 .. Len(l) |-> <<FALSE>> \o l[i]] \o
            [i \in 1 .. Len(r) |-> <<TRUE>> \o r[i]]

\* The cells given so far are the first enabled leaves in order, the iterator
\* stands on the last of them, or is in the end state with all of them given
\* and the cursor at the root.
IterationInOrder ==
    call.op \in {"begin", "increment"} =>
        LET leaves == EnabledLeavesInOrder(paving.tree)
            k == Len(call.yielded)
        IN /\ k <= Len(leaves)
           /\ \A i \in 1 .. k :
                 /\ call.yielded[i] = [height |-> paving.height,
                                       word |-> paving.word \o leaves[i]]
                 /\ HasPath(paving.tree, leaves[i])
                 /\ subtree_at(paving.tree, leaves[i]) = Leaf("T")
           /\ ~call.it.is_in_end_state =>
                 k >= 1 /\ call.it.cursor = leaves[k]
           /\ call.it.is_in_end_state =>
                 k = Len(leaves) /\ call.it.cursor = <<>>
           /\ (call.op = "begin" /\ ~has_enabled(paving.tree)) =>
                 equal(call.it, end(paving))

IterationEnded ==
    /\ call.op \in {"begin", "increment"}
    /\ equal(call.it, end(paving))

\* C18: from begin(), increments give the enabled leaves of the tree once each,
\* left before right, and nothing else; after the last one the iterator is in
\* the end state with the cursor at the root, which it reaches in the end; for
\* a tree with no enabled leaf begin() equals end().
C18_IterationVisitsEnabledLeavesInOrder ==
    []IterationInOrder /\ <>IterationEnded

\* C18, a loop the claim is about: it ended after three cells of a tree that
\* has a disabled leaf as well.
C18_Witness ==
    /\ IterationEnded
    /\ call.op = "increment"
    /\ Len(call.yielded) = 3
    /\ ~all_enabled(paving.tree)

-----------------------------------------------------------------------------
(* Sequences of mutations of one tree, from a single leaf on.              *)

\* Mutations are applied to trees of at most so many splits.
MaxValidNodes == 3
\* The length of the bit words a tree is restored from.
MaxRestoreBits == 3

RECURSIVE count_splits(_)
count_splits(n) ==
    IF is_leaf(n) THEN 0
    ELSE 1 + count_splits(left_node(n)) + count_splits(right_node(n))

\* restore_node( pCurrentNode, arr_index, leaf_counter, theTree, theEnabledCells ):
\* the node and the two counters after the call.
RECURSIVE restore_node(_, _, _, _, _)
restore_node(pCurrentNode, arr_index, leaf_counter, theTree, theEnabledCells) ==
    IF arr_index < Len(theTree)
    THEN IF theTree[arr_index + 1]
         THEN LET s == split(pCurrentNode)
                  l == restore_node(left_node(s), arr_index + 1, leaf_counter,
                                    theTree, theEnabledCells)
                  r == restore_node(right_node(s), l.arr_index + 1, l.leaf_counter,
                                    theTree, theEnabledCells)
              IN [node |-> [s EXCEPT !.kids = <<l.node, r.node>>],
                  arr_index |-> r.arr_index, leaf_counter |-> r.leaf_counter]
         ELSE [node |-> [pCurrentNode EXCEPT
                            !.en = as_tribool(theEnabledCells[leaf_counter + 1])],
               arr_index |-> arr_index, leaf_counter |-> leaf_counter + 1]
    ELSE [node |-> pCurrentNode, arr_index |-> arr_index, leaf_counter |-> leaf_counter]

\* BinaryTreeNode( theTree, theEnabledCells )
restore(theTree, theEnabledCells) ==
    IF theTree # <<>> /\ theEnabledCells # <<>>
    THEN restore_node(Leaf("F"), 0, 0, theTree, theEnabledCells).node
    ELSE Leaf("F")

\* The paths to the nodes of a tree.
RECURSIVE node_paths(_)
node_paths(n) ==
    IF is_leaf(n) THEN {<<>>}
    ELSE {<<>>} \cup {<<FALSE>> \o w : w \in node_paths(left_node(n))}
                \cup {<<TRUE>> \o w : w \in node_paths(right_node(n))}

InitMutations ==
    /\ dim \in Dimensions
    /\ paving \in {GridTreeSet(h, Leaf(e)) : h \in Heights, e \in {"T", "F"}}
    /\ other = NoPaving
    /\ theSet = NoSet
    /\ call = NoCall

\* The tree of the paving is small enough to be mutated further, and becomes
\* the given one.
MutatedTo(pRootTreeNode) ==
    /\ count_splits(paving.tree) <= MaxValidNodes
    /\ paving' = [paving EXCEPT !.tree = pRootTreeNode]
    /\ UNCHANGED <<dim, other, theSet, call>>

\* The paving is small enough for the lattice boxes of the drivers, and becomes
\* the given one.
DrivenTo(p) ==
    /\ count_splits(paving.tree) <= MaxNodes
    /\ paving' = p
    /\ UNCHANGED <<dim, other, theSet, call>>

\* split() of a node of the tree
SplitNode ==
    \E path \in node_paths(paving.tree) :
        MutatedTo(replace_at(paving.tree, path, split(subtree_at(paving.tree, path))))

\* make_leaf( true ) or make_leaf( false ) of a node of the tree
MakeLeaf ==
    \E path \in node_paths(paving.tree), b \in BOOLEAN :
        MutatedTo(replace_at(paving.tree, path,
                             make_leaf(subtree_at(paving.tree, path), as_tribool(b))))

\* mince( depth ) of the root
MinceTree ==
    \E k \in 0 .. MaxMinceDepth : MutatedTo(mince(paving.tree, k))

\* recombine() of the root
RecombineTree ==
    MutatedTo(recombine(paving.tree))

\* add_enabled( path ) of the root
AddEnabledPath ==
    \E path \in Words(MaxValidNodes) : MutatedTo(add_enabled_path(paving.tree, path))

\* add_enabled( pOtherSubTree, path ) of the root
AddEnabledSubTree ==
    \E pOtherSubTree \in Trees, path \in Words(MaxNodes) :
        MutatedTo(add_enabled_subtree(paving.tree, pOtherSubTree, path))

\* restrict( pThisNode, pOtherNode ) with the root as pThisNode
RestrictNodes ==
    \E pOtherNode \in Trees : MutatedTo(restrict_nodes(paving.tree, pOtherNode))

\* remove( pThisNode, pOtherNode ) with the root as pThisNode
RemoveNodes ==
    \E pOtherNode \in Trees : MutatedTo(remove_nodes(paving.tree, pOtherNode))

\* prepend_tree( path, root ) as up_to_primary_cell calls it, when it returns
PrependTree ==
    /\ count_splits(paving.tree) <= MaxValidNodes
    /\ \E toPCellHeight \in Heights :
         /\ toPCellHeight >= paving.height
         /\ \E pRootTreeNode \in prepend_tree_outcomes(
                   primary_cell_path(dim, toPCellHeight, paving.height), paving.tree) :
               paving' = GridTreeSet(toPCellHeight, pRootTreeNode)
    /\ UNCHANGED <<dim, other, theSet, call>>

\* the tree is replaced by one restored from two bit words
RestoreTree ==
    \E theTree \in Words(MaxRestoreBits), theEnabledCells \in WordsOfLength(MaxRestoreBits) :
        MutatedTo(restore(theTree, theEnabledCells))

\* adjoin_outer_approximation, adjoin_lower_approximation, adjoin_inner_approximation
DriveOuterApproximation ==
    \E set \in Sets, numSubdivInDim \in Subdivisions :
        DrivenTo(adjoin_outer_approximation(dim, paving, set, set.height, numSubdivInDim))

DriveLowerApproximation ==
    \E set \in Sets, numSubdivInDim \in Subdivisions :
        DrivenTo(adjoin_lower_approximation(dim, paving, set, set.height, numSubdivInDim))

DriveInnerApproximation ==
    \E set \in Sets, numSubdivInDim \in Subdivisions :
        /\ set.open
        /\ DrivenTo(adjoin_inner_approximation(dim, paving, set, set.height, numSubdivInDim))

\* outer_restrict, inner_restrict, outer_remove, inner_remove with a checker
DriveRestrictRemoveChecker ==
    \E checker \in Sets, accuracy \in Subdivisions :
        /\ ~checker.open
        /\ checker.height = paving.height
        /\ \/ DrivenTo(outer_restrict_checker(dim, paving, checker, accuracy))
           \/ DrivenTo(inner_restrict_checker(dim, paving, checker, accuracy))
           \/ DrivenTo(outer_remove_checker(dim, paving, checker, accuracy))
           \/ DrivenTo(inner_remove_checker(dim, paving, checker, accuracy))

\* outer_restrict, inner_restrict, outer_remove, inner_remove with an open set
DriveRestrictRemoveOpen ==
    \E set \in Sets :
        /\ set.open
        /\ set.height = paving.height
        /\ \/ DrivenTo(outer_restrict_open(dim, paving, set))
           \/ DrivenTo(inner_restrict_open(dim, paving, set))
           \/ DrivenTo(outer_remove_open(dim, paving, set))
           \/ DrivenTo(inner_remove_open(dim, paving, set))

NextMutations ==
    \/ SplitNode
    \/ MakeLeaf
    \/ MinceTree
    \/ RecombineTree
    \/ AddEnabledPath
    \/ AddEnabledSubTree
    \/ RestrictNodes
    \/ RemoveNodes
    \/ PrependTree
    \/ RestoreTree
    \/ DriveOuterApproximation
    \/ DriveLowerApproximation
    \/ DriveInnerApproximation
    \/ DriveRestrictRemoveChecker
    \/ DriveRestrictRemoveOpen

SpecMutations == InitMutations /\ [][NextMutations]_vars

\* Every node has no or two children, a node with children is indeterminate,
\* a node without is enabled or disabled.
RECURSIVE ValidTree(_)
ValidTree(n) ==
    /\ Len(n.kids) \in {0, 2}
    /\ Len(n.kids) = 0 => n.en \in {"T", "F"}
    /\ Len(n.kids) = 2 =>
          /\ n.en = "I"
          /\ ValidTree(n.kids[1])
          /\ ValidTree(n.kids[2])

\* C19: from a single enabled or disabled leaf, after any sequence of split,
\* make_leaf, mince, recombine, add_enabled, restrict, remove, prepend_tree,
\* restore and the drivers, every node of the tree has no or two children, is
\* indeterminate when it has children and enabled or disabled when it has none.
C19_TreeValidity ==
    ValidTree(paving.tree)

\* C19, a tree the claim is about: mutations have made a tree of three levels
\* with an enabled and a disabled leaf, re-rooted above height zero.
C19_Witness ==
    /\ paving.height > 0
    /\ depth(paving.tree) >= 3
    /\ has_enabled(paving.tree)
    /\ ~all_enabled(paving.tree)
    /\ ValidTree(paving.tree)

-----------------------------------------------------------------------------
(* Projection of a paving onto some of its axes.                           *)

ProjectDimensions == {2, 3}

\* The vectors of distinct axes of a grid of d dimensions, in any order.
IndexVectors(d) ==
    {v \in UNION {[1 .. k -> 0 .. d - 1] : k \in 1 .. d} :
        \A i, j \in DOMAIN v : i # j => v[i] # v[j]}

\* The inner loop of project_down_unchecked: the bit is pushed once for every
\* index that names its axis.
pushed_bits(bit, axis, indices) ==
    Repeat(bit, Cardinality({j \in DOMAIN indices : indices[j] = axis}))

\* The outer loop of project_down_unchecked from bit i of the word on.
RECURSIVE project_word(_, _, _, _)
project_word(word, cell_dimension, indices, i) ==
    IF i >= Len(word) THEN <<>>
    ELSE pushed_bits(word[i + 1], i % cell_dimension, indices)
         \o project_word(word, cell_dimension, indices, i + 1)

GridCell(theHeight, theWord) == [height |-> theHeight, word |-> theWord]

\* project_down_unchecked( cell, projected_grid, indices )
project_down_unchecked(cell_dimension, cell, indices) ==
    GridCell(cell.height, project_word(cell.word, cell_dimension, indices, 0))

\* An adjoin of a cell that does not stop at an enabled node during alignment.
adjoin_cell_without_stop(d, p, theCell) ==
    LET a == align_with_cell(d, p, theCell.height, FALSE, FALSE)
    IN [a.paving EXCEPT !.tree =
           replace_at(a.paving.tree, a.at,
              add_enabled_path(subtree_at(a.paving.tree, a.at), theCell.word))]

\* GridTreeSet::adjoin( const GridCell& theCell )
adjoin_cell(d, p, theCell) ==
    LET a == align_with_cell(d, p, theCell.height, TRUE, FALSE)
    IN IF ~a.has_stopped
       THEN [a.paving EXCEPT !.tree =
               replace_at(a.paving.tree, a.at,
                  add_enabled_path(subtree_at(a.paving.tree, a.at), theCell.word))]
       ELSE a.paving

\* The loop of project_down from the iterator on.
RECURSIVE project_cells(_, _, _, _, _)
project_cells(d, original_set, cell_it, indices, result) ==
    IF equal(cell_it, end(original_set)) THEN result
    ELSE project_cells(d, original_set, increment(original_set, cell_it), indices,
            adjoin_cell(Len(indices), result,
                project_down_unchecked(d, dereference(original_set, cell_it), indices)))

\* project_down( original_set, indices )
project_down(d, original_set, indices) ==
    project_cells(d, original_set, begin(original_set), indices, GridTreeSet(0, Leaf("F")))

InitProject ==
    /\ dim \in ProjectDimensions
    /\ paving \in {GridTreeSet(h, tree) : h \in Heights, tree \in IterTrees}
    /\ other = NoPaving
    /\ theSet = NoSet
    /\ call = NoCall

\* other = project_down( paving, indices )
ProjectDown ==
    /\ call = NoCall
    /\ \E indices \in IndexVectors(dim) :
         /\ other' = project_down(dim, paving, indices)
         /\ call' = [op |-> "project_down", indices |-> indices]
    /\ UNCHANGED <<dim, paving, theSet>>

NextProject ==
    \/ ProjectDown

SpecProject == InitProject /\ [][NextProject]_vars

\* The lattice interval of a cell on one axis (1 .. d), in units fine enough
\* for every word of the trees projected.
lattice_interval(d, theCell, axis) ==
    lattice_box_walk([i \in 1 .. d |-> primary_cell_corners(theCell.height, Pow2(MaxIterNodes))],
                     d, theCell.word, 0)[axis]

\* The projected cell of an enabled leaf has the height of the leaf and, on
\* every projected axis, the interval of the leaf on the axis the index names.
ProjectsCells ==
    \A w \in enabled_leaves(paving.tree) :
        LET cell == GridCell(paving.height, w)
            projected == project_down_unchecked(dim, cell, call.indices)
        IN /\ projected.height = cell.height
           /\ \A j \in DOMAIN call.indices :
                 lattice_interval(Len(call.indices), projected, j)
                    = lattice_interval(dim, cell, call.indices[j] + 1)

\* The result is the union of the projected cells.
ResultIsUnionOfProjectedCells ==
    /\ has_enabled(paving.tree) => other.height = paving.height
    /\ other.word = <<>>
    /\ TreeRegion(other.tree) =
          {v \in WordsOfLength(MaxNodes + MaxMinceDepth) :
              \E w \in enabled_leaves(paving.tree) :
                  is_prefix(project_word(w, dim, call.indices, 0), v)}

IsIncreasing(indices) ==
    \A i, j \in DOMAIN indices : i < j => indices[i] < indices[j]

\* C20: for every enabled leaf of the source and every vector of distinct axes
\* in any order, the projected cell has the height of the leaf and on projected
\* axis j the lattice interval of the leaf on axis indices[j]; the result is
\* the union of the projected cells.
C20_ProjectDownProjectsCells ==
    call.op = "project_down" => ProjectsCells /\ ResultIsUnionOfProjectedCells

\* C20, the failing case: the axes are not named in increasing order and some
\* projected cell has on a projected axis the interval of another axis.
C20_PermutedAxesMisprojected ==
    /\ call.op = "project_down"
    /\ ~IsIncreasing(call.indices)
    /\ ~ProjectsCells

\* C20, the part the code has: the same for axes named in increasing order,
\* and the result is the union of the cells projected, in any order.
C20_ProjectDownIncreasing ==
    call.op = "project_down" =>
        /\ IsIncreasing(call.indices) => ProjectsCells
        /\ ResultIsUnionOfProjectedCells

\* C20, a projection the part the code has is about: of three axes the first
\* and the last are kept, of a paving with leaves at three levels.
C20_ProjectedTwoOfThree ==
    /\ call.op = "project_down"
    /\ call.indices = <<0, 2>>
    /\ depth(paving.tree) = 3
    /\ has_enabled(paving.tree)
    /\ ~all_enabled(paving.tree)
    /\ ProjectsCells

-----------------------------------------------------------------------------
(* Adjoining one cell to a paving.                                         *)

GridCells == {GridCell(h, w) : h \in Heights, w \in Words(MaxNodes + MaxWordLen)}

InitAdjoinCell ==
    /\ dim \in Dimensions
    /\ paving \in GridTreeSets
    /\ other = NoPaving
    /\ theSet = NoSet
    /\ call = NoCall

\* paving.adjoin( theCell )
AdjoinCell ==
    /\ call = NoCall
    /\ \E theCell \in GridCells :
         /\ paving' = adjoin_cell(dim, paving, theCell)
         /\ call' = [op |-> "adjoin", pre |-> paving, cell |-> theCell]
    /\ UNCHANGED <<dim, other, theSet>>

NextAdjoinCell ==
    \/ AdjoinCell

SpecAdjoinCell == InitAdjoinCell /\ [][NextAdjoinCell]_vars

\* Some node on the path, its end included, is an enabled leaf of the tree.
MeetsEnabledLeaf(n, path) ==
    \E v \in Prefixes(path) : HasPath(n, v) /\ subtree_at(n, v) = Leaf("T")

\* The path of the cell adjoined runs into an enabled leaf of the tree of
\* before: from the root of a paving at least as high as the cell, or, for a
\* lower paving, through its primary cell.
RunsIntoEnabledLeaf ==
    IF call.pre.height >= call.cell.height
    THEN MeetsEnabledLeaf(call.pre.tree,
            primary_cell_path(dim, call.pre.height, call.cell.height) \o call.cell.word)
    ELSE LET down == primary_cell_path(dim, call.cell.height, call.pre.height)
         IN /\ is_prefix(down, call.cell.word)
            /\ MeetsEnabledLeaf(call.pre.tree,
                                SubSeq(call.cell.word, Len(down) + 1, Len(call.cell.word)))

\* The cell is enabled afterwards, and the points enabled are those of before
\* and those of the cell.
AdjoinedIsUnion ==
    /\ paving.height >= call.cell.height
    /\ is_enabled_path(paving.tree,
           primary_cell_path(dim, paving.height, call.cell.height) \o call.cell.word)
    /\ Region(dim, paving) =
          Region(dim, call.pre) \cup Units(cell_box(dim, call.cell.height, call.cell.word))

\* C21 as stated: adjoining a cell enables the cell and changes no other
\* point, and when the path of the cell runs into an enabled leaf, during
\* alignment or along the word of the cell, the tree is as it was.
C21_AdjoinCellStopsUnchanged ==
    call.op = "adjoin" =>
        /\ AdjoinedIsUnion
        /\ RunsIntoEnabledLeaf => paving = call.pre

\* C21: adjoining a cell enables the cell and changes no other point; when
\* the path of the cell runs into an enabled leaf, a paving at least as high
\* as the cell is as it was, and a lower paving is re-rooted to the height of
\* the cell and nothing more: the tree of before sits at the path to its old
\* primary cell and the only new splits are those of that path.
C21_AdjoinCellStopsAfterAlignment ==
    call.op = "adjoin" =>
        /\ AdjoinedIsUnion
        /\ (RunsIntoEnabledLeaf /\ call.pre.height >= call.cell.height) =>
              paving = call.pre
        /\ (RunsIntoEnabledLeaf /\ call.pre.height < call.cell.height) =>
              LET down == primary_cell_path(dim, call.cell.height, call.pre.height)
              IN /\ paving.height = call.cell.height
                 /\ HasPath(paving.tree, down)
                 /\ subtree_at(paving.tree, down) = call.pre.tree
                 /\ count_splits(paving.tree) = count_splits(call.pre.tree) + Len(down)

\* C21, a call the claim is about: the path of a cell of the same height runs
\* through a split into an enabled leaf above the end of its word, in a tree
\* that has a disabled leaf too.
C21_Witness ==
    /\ call.op = "adjoin"
    /\ call.pre.height > call.cell.height
    /\ RunsIntoEnabledLeaf
    /\ ~all_enabled(call.pre.tree)
    /\ paving = call.pre

-----------------------------------------------------------------------------
(* A paving against a box.  The boxes asked about have their corners on    *)
(* the lattice.  Box::subset( Box ) belongs to the geometry library: it    *)
(* answers with a tribool, exactly where it decides and indeterminate at   *)
(* the cells it cannot decide, which a call draws as the set unsure.       *)

box_subset(theCellsBox, theBox, undecided) ==
    IF undecided THEN "I" ELSE IF box_inside(theCellsBox, theBox) THEN "T" ELSE "F"

\* The recursion with a leaf outside the box answering false whether or not
\* the leaf is enabled.
RECURSIVE subset_of_box_cells_only(_, _, _, _, _, _)
subset_of_box_cells_only(pCurrentNode, d, theHeight, theWord, theBox, unsure) ==
    LET isASubset == box_subset(cell_box(d, theHeight, theWord), theBox, theWord \in unsure)
    IN IF isASubset = "T" THEN "T"
       ELSE IF is_leaf(pCurrentNode) THEN isASubset
       ELSE tri_and(subset_of_box_cells_only(left_node(pCurrentNode), d, theHeight,
                                             theWord \o <<FALSE>>, theBox, unsure),
                    subset_of_box_cells_only(right_node(pCurrentNode), d, theHeight,
                                             theWord \o <<TRUE>>, theBox, unsure))

\* GridTreeSubset::subset( pCurrentNode, theGrid, theHeight, theWord, theBox )
RECURSIVE subset_of_box(_, _, _, _, _, _)
subset_of_box(pCurrentNode, d, theHeight, theWord, theBox, unsure) ==
    LET isASubset == box_subset(cell_box(d, theHeight, theWord), theBox, theWord \in unsure)
    IN IF isASubset = "T" THEN "T"
       ELSE IF is_leaf(pCurrentNode) /\ isASubset = "F"
       THEN (IF is_enabled(pCurrentNode) THEN "F" ELSE "T")
       ELSE IF is_leaf(pCurrentNode) /\ isASubset = "I"
       THEN (IF is_enabled(pCurrentNode) THEN "I" ELSE "T")
       ELSE LET result_left == subset_of_box(left_node(pCurrentNode), d, theHeight,
                                             theWord \o <<FALSE>>, theBox, unsure)
            IN IF result_left = "F" THEN "F"
               ELSE LET result_right == subset_of_box(right_node(pCurrentNode), d, theHeight,
                                                      theWord \o <<TRUE>>, theBox, unsure)
                    IN IF result_right = "F" THEN "F"
                       ELSE IF result_left = "T" /\ result_right = "T" THEN "T"
                       ELSE "I"

\* GridTreeSubset::subset( theBox ): the recursion from the root cell of the
\* subset.
subset_box(d, p, theBox, unsure) ==
    subset_of_box(p.tree, d, p.height, p.word, theBox, unsure)

BoxCorners(d) == {0 - LatticeUnit(d), 0, LatticeUnit(d) \div 2, LatticeUnit(d)}

QueryBoxes(d) ==
    {b \in [1 .. d -> [lo : BoxCorners(d), hi : BoxCorners(d)]] :
        \A i \in 1 .. d : b[i].lo < b[i].hi}

InitBoxPredicates ==
    /\ dim \in Dimensions
    /\ paving \in GridTreeSubsets
    /\ other = NoPaving
    /\ theSet = NoSet
    /\ call = NoCall

SubsetBox ==
    /\ call = NoCall
    /\ \E theBox \in QueryBoxes(dim) :
          \E unsure \in SUBSET {paving.word \o w : w \in node_paths(paving.tree)} :
             call' = [op |-> "subset_box", theBox |-> theBox, unsure |-> unsure,
                      result |-> subset_box(dim, paving, theBox, unsure)]
    /\ UNCHANGED <<dim, paving, other, theSet>>

NextBoxPredicates == SubsetBox

SpecBoxPredicates == InitBoxPredicates /\ [][NextBoxPredicates]_vars

\* The enabled cells of the paving that do not lie in the box asked about.
CellsOutsideBox == {b \in EnabledCells(dim, paving) : ~box_inside(b, call.theBox)}

\* The enabled leaves at which the box test did not decide, itself or at a
\* node above.
UndecidedLeaves ==
    {w \in enabled_leaves(paving.tree) :
        \E v \in Prefixes(w) : paving.word \o v \in call.unsure}

\* C22 as stated: subset(box) is definitely true only if every point of the
\* box lies in an enabled leaf, and definitely false only if some point of
\* the box lies in no enabled leaf.
C22_SubsetDecidesBoxInPaving ==
    call.op = "subset_box" =>
        /\ call.result = "T" => Units(call.theBox) \subseteq Region(dim, paving)
        /\ call.result = "F" => ~(Units(call.theBox) \subseteq Region(dim, paving))

\* C22: subset(box) decides whether the paving lies in the box: it is
\* definitely true only if every enabled leaf lies in the box, definitely
\* false only if some enabled leaf does not, indeterminate only if the box
\* test did not decide at an enabled leaf or above it, and definite when the
\* box test decides everywhere.
C22_SubsetDecidesPavingInBox ==
    call.op = "subset_box" =>
        /\ call.result = "T" => CellsOutsideBox = {}
        /\ call.result = "F" => CellsOutsideBox # {}
        /\ call.result = "I" => UndecidedLeaves # {}
        /\ call.unsure = {} => call.result # "I"

\* C22, a call the claim is about: a split paving with an enabled leaf in the
\* box and an enabled leaf outside it, answered definitely false, the box
\* itself not covered by the paving.
C22_Witness ==
    /\ call.op = "subset_box"
    /\ call.result = "F"
    /\ ~is_leaf(paving.tree)
    /\ CellsOutsideBox # {}
    /\ CellsOutsideBox # EnabledCells(dim, paving)
    /\ ~(Units(call.theBox) \subseteq Region(dim, paving))

\* C22, the empty paving: within every box, which it does not contain.
C22_EmptyPavingInBox ==
    /\ call.op = "subset_box"
    /\ call.result = "T"
    /\ Region(dim, paving) = {}

-----------------------------------------------------------------------------
(* Adjoining the over approximation of a box.  A Box is a vector of        *)
(* intervals with corners on the lattice, lower above upper allowed; as a  *)
(* set it answers about a cell from the two boxes.                         *)

\* inside( theLatticeBox, primaryCellBox ) of the geometry library: every
\* interval strictly within the other.
inside(b, c) == \A i \in DOMAIN b : c[i].lo < b[i].lo /\ b[i].hi < c[i].hi

\* smallest_enclosing_primary_cell_height( theLatticeBox ), the loop from
\* height and corners on, with the corners in units of 1 / unit.
RECURSIVE enclosing_height_loop(_, _, _)
enclosing_height_loop(theLatticeBox, height, corners) ==
    IF inside(theLatticeBox, [i \in DOMAIN theLatticeBox |-> corners]) THEN height
    ELSE enclosing_height_loop(theLatticeBox, height + 1,
                               primary_cell_at_height(height + 1, corners))

smallest_enclosing_primary_cell_height(theLatticeBox, unit) ==
    enclosing_height_loop(theLatticeBox, 0, [lo |-> 0, hi |-> unit])

\* What a box answers about a cell: Box::disjoint, Box::overlaps and
\* Box::covers of the geometry library, undecided where the two only touch.
box_label(theBox, cell) ==
    IF box_inside(cell, theBox) THEN "in"
    ELSE IF \E i \in DOMAIN cell : cell[i].hi < theBox[i].lo \/ theBox[i].hi < cell[i].lo
    THEN "out"
    ELSE IF \A i \in DOMAIN cell : cell[i].lo < theBox[i].hi /\ theBox[i].lo < cell[i].hi
    THEN "cut"
    ELSE "unk"

RECURSIVE box_answers(_, _, _, _, _)
box_answers(theBox, cell, k, d, levels) ==
    LET a == box_label(theBox, cell)
    IN IF levels = 0 \/ a \in {"in", "out"} THEN [label |-> a, kids |-> <<>>]
       ELSE [label |-> a,
             kids |-> <<box_answers(theBox, bisect(cell, (k % d) + 1, FALSE), k + 1, d, levels - 1),
                        box_answers(theBox, bisect(cell, (k % d) + 1, TRUE), k + 1, d, levels - 1)>>]

\* The box as the set the driver asks, to the depth the driver goes.
box_as_set(d, theBox, open, numSubdivInDim) ==
    LET height == smallest_enclosing_primary_cell_height(theBox, LatticeUnit(d))
    IN [height |-> height, open |-> open,
        answers |-> box_answers(theBox, primary_cell_lattice_box(height, d), 0, d,
                       zero_cell_subdivisions_to_tree_subdivisions(d, numSubdivInDim, height, 0))]

has_empty_interior(theBox) == \E i \in DOMAIN theBox : theBox[i].lo >= theBox[i].hi

\* The call without the test of the box.
adjoin_over_approximation_unchecked(d, p, theBox, open, numSubdivInDim) ==
    LET set == box_as_set(d, theBox, open, numSubdivInDim)
    IN [paving |-> adjoin_outer_approximation(d, p, set, set.height, numSubdivInDim),
        threw |-> FALSE]

\* adjoin_over_approximation( theBox, numSubdivInDim ): the paving after the
\* call and whether the call threw.
adjoin_over_approximation(d, p, theBox, open, numSubdivInDim) ==
    IF has_empty_interior(theBox) THEN [paving |-> p, threw |-> TRUE]
    ELSE LET set == box_as_set(d, theBox, open, numSubdivInDim)
         IN [paving |-> adjoin_outer_approximation(d, p, set, set.height, numSubdivInDim),
             threw |-> FALSE]

OverCorners(d) == {0 - (LatticeUnit(d) \div 2), 0, LatticeUnit(d) \div 2, LatticeUnit(d)}

OverBoxes(d) == [1 .. d -> [lo : OverCorners(d), hi : OverCorners(d)]]

InitOverApproximation ==
    /\ dim \in Dimensions
    /\ paving \in GridTreeSets
    /\ other = NoPaving
    /\ theSet = NoSet
    /\ call = NoCall

AdjoinOverApproximation ==
    /\ call = NoCall
    /\ \E theBox \in OverBoxes(dim), open \in BOOLEAN, numSubdivInDim \in Subdivisions :
          LET r == adjoin_over_approximation(dim, paving, theBox, open, numSubdivInDim)
          IN /\ paving' = r.paving
             /\ call' = [op |-> "adjoin_over_approximation", pre |-> paving,
                         theBox |-> theBox, open |-> open, n |-> numSubdivInDim,
                         threw |-> r.threw]
    /\ UNCHANGED <<dim, other, theSet>>

NextOverApproximation == AdjoinOverApproximation

SpecOverApproximation == InitOverApproximation /\ [][NextOverApproximation]_vars

\* C23: adjoin_over_approximation throws exactly on a box with lower >= upper
\* in some axis and then leaves the paving as it was; on a box of positive
\* width in every axis it does what adjoin_outer_approximation of the box
\* does, which keeps the points of before and covers the box.
C23_EmptyInteriorBeforeChange ==
    call.op = "adjoin_over_approximation" =>
        /\ call.threw = has_empty_interior(call.theBox)
        /\ call.threw => paving = call.pre
        /\ ~call.threw =>
              LET set == box_as_set(dim, call.theBox, call.open, call.n)
              IN /\ paving = adjoin_outer_approximation(dim, call.pre, set, set.height, call.n)
                 /\ Region(dim, call.pre) \subseteq Region(dim, paving)
                 /\ Units(call.theBox) \subseteq Region(dim, paving)

\* C23, a call the claim is about: a box of no width in one axis only, lying
\* in cells the paving has not enabled, thrown and the paving as it was.
C23_Witness ==
    /\ call.op = "adjoin_over_approximation"
    /\ dim = 2
    /\ call.theBox[1].lo < call.theBox[1].hi
    /\ call.theBox[2].lo = call.theBox[2].hi
    /\ call.threw
    /\ Region(dim, paving) = {}
    /\ paving = call.pre

\* C23, the other case: a box of positive width adjoined to a paving that
\* changes by it.
C23_Adjoined ==
    /\ call.op = "adjoin_over_approximation"
    /\ ~call.threw
    /\ paving # call.pre
    /\ Region(dim, call.pre) # {}

-----------------------------------------------------------------------------
(* Export and import with the file system failing.  fopen returns NULL     *)
(* when the file cannot be opened; neither call looks at what fopen        *)
(* returned, so fputc, fgetc, fflush and fclose are handed the NULL.       *)
(* Writing to or reading from a NULL stream is undefined: the call ends    *)
(* the process at the first access, or the access is answered and the call *)
(* goes on.  A call ends "returned", "threw" (an error the caller gets) or *)
(* "crashed".                                                              *)

\* What reading a NULL stream can hand to add_enabled_from_file when the
\* reads are answered: the bytes of some tree.
GarbageStreams == {remove_to_file(t) : t \in TreesUpTo(1)}

\* export_to_file( filename ): the paving after the call, the bytes in the
\* file, how the call ended and whether a NULL stream was used.
export_to_file(p, opened, answered) ==
    IF opened
    THEN [paving |-> [p EXCEPT !.tree = set_unknown_unchecked(p.tree)],
          file |-> remove_to_file(p.tree), outcome |-> "returned", null_used |-> FALSE]
    ELSE IF answered
    THEN [paving |-> [p EXCEPT !.tree = set_unknown_unchecked(p.tree)],
          file |-> <<>>, outcome |-> "returned", null_used |-> TRUE]
    ELSE [paving |-> p, file |-> <<>>, outcome |-> "crashed", null_used |-> TRUE]

\* import_from_file( filename ): the paving after the call, how the call
\* ended and whether a NULL stream was used; read is what the reads of a
\* NULL stream gave, <<>> when they ended the process.
import_from_file(p, file, opened, read, removed) ==
    IF opened
    THEN [paving |-> [p EXCEPT !.tree = add_enabled_from_file(p.tree, file).node],
          outcome |-> IF removed THEN "returned" ELSE "threw", null_used |-> FALSE]
    ELSE IF read # <<>>
    THEN [paving |-> [p EXCEPT !.tree = add_enabled_from_file(p.tree, read).node],
          outcome |-> IF removed THEN "returned" ELSE "threw", null_used |-> TRUE]
    ELSE [paving |-> p, outcome |-> "crashed", null_used |-> TRUE]

InitFileFailures ==
    /\ dim \in Dimensions
    /\ paving \in GridTreeSets
    /\ other \in {GridTreeSet(paving.height, Leaf(e)) : e \in {"T", "F"}}
    /\ theSet = NoSet
    /\ call = NoCall

\* paving.export_to_file( filename ), the file opening or not.
ExportToFileMayFail ==
    /\ call = NoCall
    /\ \E opened \in BOOLEAN, answered \in BOOLEAN :
          LET r == export_to_file(paving, opened, answered)
          IN /\ paving' = r.paving
             /\ call' = [op |-> "export_to_file", pre |-> paving, opened |-> opened,
                         removed |-> FALSE, file |-> r.file, outcome |-> r.outcome,
                         null_used |-> r.null_used]
    /\ UNCHANGED <<dim, other, theSet>>

\* other.import_from_file( filename ) of a file an export wrote, the file
\* opening or not and its removal succeeding or not.
ImportFromFileMayFail ==
    /\ call.op = "export_to_file"
    /\ call.opened
    /\ \E opened \in BOOLEAN, removed \in BOOLEAN, read \in GarbageStreams \cup {<<>>} :
          LET r == import_from_file(other, call.file, opened, read, removed)
          IN /\ other' = r.paving
             /\ call' = [op |-> "import_from_file", pre |-> other, opened |-> opened,
                         removed |-> removed, file |-> call.file, outcome |-> r.outcome,
                         null_used |-> r.null_used]
    /\ UNCHANGED <<dim, paving, theSet>>

NextFileFailures ==
    \/ ExportToFileMayFail
    \/ ImportFromFileMayFail

SpecFileFailures == InitFileFailures /\ [][NextFileFailures]_vars

\* C24 as stated: when the file cannot be opened the call reports an error
\* to the caller, uses no invalid handle and leaves its paving unchanged;
\* when the imported file cannot be removed an error is reported.
C24_IOFailuresSurface ==
    /\ (call.op = "export_to_file" /\ ~call.opened) =>
          call.outcome = "threw" /\ ~call.null_used /\ paving = call.pre
    /\ (call.op = "import_from_file" /\ ~call.opened) =>
          call.outcome = "threw" /\ ~call.null_used /\ other = call.pre
    /\ (call.op = "import_from_file" /\ ~call.removed) => call.outcome = "threw"

\* C24, the failing case: the file of an export did not open, the call
\* returned without an error, nothing is in the file and the set the paving
\* held is gone.
C24_SilentExportLosesSet ==
    /\ call.op = "export_to_file"
    /\ ~call.opened
    /\ call.outcome = "returned"
    /\ call.null_used
    /\ call.file = <<>>
    /\ has_enabled(call.pre.tree)
    /\ paving.tree = Leaf("I")

\* C24, the part the code has: with the file opened no NULL stream is used,
\* and an import whose file cannot be removed afterwards reports an error,
\* after the paving took what was read; a file that did not open is never
\* reported as such.
C24_RemovalFailureReported ==
    /\ (call.op \in {"export_to_file", "import_from_file"} /\ call.opened) =>
          ~call.null_used
    /\ (call.op = "import_from_file" /\ call.opened /\ ~call.removed) =>
          /\ call.outcome = "threw"
          /\ other.tree = add_enabled_from_file(call.pre.tree, call.file).node
    /\ (call.op = "import_from_file" /\ call.opened /\ call.removed) =>
          call.outcome = "returned"
    /\ (call.op \in {"export_to_file", "import_from_file"} /\ ~call.opened) =>
          /\ call.null_used
          /\ call.outcome = "threw" => call.op = "import_from_file" /\ ~call.removed

-----------------------------------------------------------------------------
(* The path between two primary cells and the lattice box of a word        *)
(* re-rooted by it.                                                        *)

MaxPathHeight == 3

PathDimensions == 1 .. 3

InitPrimaryCellPath ==
    /\ dim \in PathDimensions
    /\ paving = NoPaving
    /\ other = NoPaving
    /\ theSet = NoSet
    /\ call = NoCall

\* primary_cell_path( dim, topPCellHeight, bottomPCellHeight ) and the two
\* lattice boxes of a word below the bottom primary cell.
PrimaryCellPath ==
    /\ call = NoCall
    /\ \E topPCellHeight \in 0 .. MaxPathHeight, bottomPCellHeight \in 0 .. MaxPathHeight,
          theWord \in Words(3) :
          /\ topPCellHeight >= bottomPCellHeight
          /\ LET path == primary_cell_path(dim, topPCellHeight, bottomPCellHeight)
             IN call' = [op |-> "primary_cell_path", top |-> topPCellHeight,
                         bottom |-> bottomPCellHeight, word |-> theWord, path |-> path,
                         from_top |-> compute_lattice_box(dim, topPCellHeight, path \o theWord),
                         from_bottom |-> compute_lattice_box(dim, bottomPCellHeight, theWord)]
    /\ UNCHANGED <<dim, paving, other, theSet>>

NextPrimaryCellPath == PrimaryCellPath

SpecPrimaryCellPath == InitPrimaryCellPath /\ [][NextPrimaryCellPath]_vars

\* C25: the path from the primary cell of height h_top to that of height
\* h_bottom has dim * (h_top - h_bottom) bits, in groups of dim equal bits,
\* all true where the upper height of the step is odd and all false where it
\* is even, and a word below the bottom primary cell has the same lattice box
\* as the path followed by the word below the top primary cell.
C25_ReRootedWordSameBox ==
    call.op = "primary_cell_path" =>
        /\ Len(call.path) = dim * (call.top - call.bottom)
        /\ \A k \in 0 .. call.top - call.bottom - 1 : \A j \in 1 .. dim :
              call.path[k * dim + j] = (((call.top - k) % 2) = 1)
        /\ call.from_top = call.from_bottom

\* C25, a call the claim is about: two steps down, in two dimensions, with a
\* word below.
C25_Witness ==
    /\ call.op = "primary_cell_path"
    /\ dim = 2
    /\ call.top = call.bottom + 2
    /\ Len(call.word) = 3
    /\ call.path = <<call.top % 2 = 1, call.top % 2 = 1, call.top % 2 = 0, call.top % 2 = 0>>
    /\ call.from_top = call.from_bottom

-----------------------------------------------------------------------------
(* The loop of smallest_enclosing_primary_cell_height, one pass of the     *)
(* do-while at a time.  leftBottomCorner and rightTopCorner are int and    *)
(* height is uint; the model gives int IntBits bits and uint HeightBits    *)
(* bits.  The coordinates of the lattice box are floating point numbers    *)
(* and may lie beyond every int.  An int assignment that overflows is      *)
(* undefined: the value wraps around or the process is trapped.            *)

IntBits == 5
HeightBits == 4

as_int(x) == ((x + Pow2(IntBits - 1)) % Pow2(IntBits)) - Pow2(IntBits - 1)
as_uint(x) == x % Pow2(HeightBits)

EnclosingCoords == {0 - 20, 0 - 5, 0 - 4, 0 - 1, 0, 1, 2, 3, 11, 12}

EnclosingBoxes(d) ==
    {b \in [1 .. d -> [lo : EnclosingCoords, hi : EnclosingCoords]] :
        \A i \in 1 .. d : b[i].lo < b[i].hi}

InitEnclosing ==
    /\ dim \in Dimensions
    /\ paving = NoPaving
    /\ other = NoPaving
    /\ theSet = NoSet
    /\ call = NoCall

\* smallest_enclosing_primary_cell_height( theLatticeBox ) is entered.
EnclosingEnter ==
    /\ call = NoCall
    /\ \E theLatticeBox \in EnclosingBoxes(dim) :
          call' = [op |-> "smallest_enclosing_primary_cell_height",
                   theLatticeBox |-> theLatticeBox, height |-> 0,
                   leftBottomCorner |-> 0, rightTopCorner |-> 1, pc |-> "loop"]
    /\ UNCHANGED <<dim, paving, other, theSet>>

\* One pass of the loop: break when the box is inside the primary cell, else
\* ++height and primary_cell_at_height on the two int corners.
EnclosingPass ==
    /\ call.op = "smallest_enclosing_primary_cell_height"
    /\ call.pc = "loop"
    /\ LET corners == [lo |-> call.leftBottomCorner, hi |-> call.rightTopCorner]
           height == as_uint(call.height + 1)
           next == primary_cell_at_height(height, corners)
       IN \/ /\ inside(call.theLatticeBox, [i \in 1 .. dim |-> corners])
             /\ call' = [call EXCEPT !.pc = "done"]
          \/ /\ ~inside(call.theLatticeBox, [i \in 1 .. dim |-> corners])
             /\ call' = [call EXCEPT !.height = height,
                                     !.leftBottomCorner = as_int(next.lo),
                                     !.rightTopCorner = as_int(next.hi)]
          \/ /\ ~inside(call.theLatticeBox, [i \in 1 .. dim |-> corners])
             /\ as_int(next.lo) # next.lo \/ as_int(next.hi) # next.hi
             /\ call' = [call EXCEPT !.height = height, !.pc = "trapped"]
    /\ UNCHANGED <<dim, paving, other, theSet>>

NextEnclosing ==
    \/ EnclosingEnter
    \/ EnclosingPass

SpecEnclosing == InitEnclosing /\ [][NextEnclosing]_vars

\* The loop is sequential code: a pass that can be taken is taken.
FairSpecEnclosing == SpecEnclosing /\ WF_vars(EnclosingEnter) /\ WF_vars(EnclosingPass)

EnclosingEntered == call.op = "smallest_enclosing_primary_cell_height"

\* The primary cell of a height, in exact arithmetic.
PrimaryCell(d, h) == [i \in 1 .. d |-> primary_cell_corners(h, 1)]

\* The loop has stopped at the least height whose primary cell the box is
\* inside, with the corners of that cell, 2^height apart.
StoppedAtSmallest ==
    /\ inside(call.theLatticeBox, PrimaryCell(dim, call.height))
    /\ \A h \in 0 .. call.height - 1 : ~inside(call.theLatticeBox, PrimaryCell(dim, h))
    /\ call.leftBottomCorner = primary_cell_corners(call.height, 1).lo
    /\ call.rightTopCorner = primary_cell_corners(call.height, 1).hi
    /\ call.rightTopCorner - call.leftBottomCorner = Pow2(call.height)

\* The heights whose primary cell has int corners.
IntHeights == {h \in 0 .. IntBits : as_int(primary_cell_corners(h, 1).lo) = primary_cell_corners(h, 1).lo
                                    /\ as_int(primary_cell_corners(h, 1).hi) = primary_cell_corners(h, 1).hi}

FitsIntCell ==
    /\ EnclosingEntered
    /\ \E h \in IntHeights : inside(call.theLatticeBox, PrimaryCell(dim, h))

EnclosingStopped == EnclosingEntered /\ call.pc = "done"

\* C26 as stated: for every bounded lattice box the loop stops, at the least
\* height whose primary cell the box is inside.
C26_EnclosingTerminatesMinimal ==
    /\ [](EnclosingEntered => <>EnclosingStopped)
    /\ [](EnclosingStopped => StoppedAtSmallest)

\* C26, the failing case: the box is inside no primary cell with int corners,
\* the corners have overflowed, and the loop goes on with a primary cell of
\* no width, or the process is trapped.
C26_CornersOverflowed ==
    /\ EnclosingEntered
    /\ ~FitsIntCell
    /\ \/ call.pc = "trapped"
       \/ call.pc = "loop" /\ call.leftBottomCorner = call.rightTopCorner

\* C26, the part the code has: a box inside a primary cell with int corners
\* is answered, with the least height; for no other box does the loop stop.
C26_EnclosingWithinIntCells ==
    /\ [](FitsIntCell => <>EnclosingStopped)
    /\ [](EnclosingStopped => StoppedAtSmallest /\ FitsIntCell)

\* The primary cells are nested, 2^h wide, growing downward at odd heights
\* and upward at even ones.
C26_PrimaryCellsNested ==
    \A h \in 1 .. IntBits :
        LET c == primary_cell_corners(h, 1)
            b == primary_cell_corners(h - 1, 1)
        IN /\ c.hi - c.lo = Pow2(h)
           /\ IF h % 2 = 1 THEN c.hi = b.hi /\ c.lo < b.lo ELSE c.lo = b.lo /\ c.hi > b.hi

-----------------------------------------------------------------------------
(* The neighbour of a cell in the positive direction of an axis.  The axes *)
(* are 0 .. d - 1 and the positions of a word 0 .. size - 1, as in the     *)
(* code; position is uint and the corners of the loop are int.             *)

MaxNeighbourHeight == 4

\* Step 2 of neighboringCell: the least height whose primary cell reaches
\* upperBorderOverlapping, which is given doubled and in units of 1 / unit.
\* An overflowing corner wraps around or traps the process; seen holds the
\* corners the loop has been at, and a loop back at one of them never ends.
RECURSIVE neighbour_height_loop(_, _, _, _, _, _)
neighbour_height_loop(twiceUpperBorder, unit, height, corners, traps, seen) ==
    IF twiceUpperBorder <= 2 * unit * corners.hi THEN [kind |-> "found", height |-> height]
    ELSE IF <<height % 2, corners>> \in seen THEN [kind |-> "loops", height |-> height]
    ELSE LET next == primary_cell_at_height(as_uint(height + 1), corners)
             overflows == as_int(next.lo) # next.lo \/ as_int(next.hi) # next.hi
         IN IF overflows /\ traps THEN [kind |-> "trapped", height |-> as_uint(height + 1)]
            ELSE neighbour_height_loop(twiceUpperBorder, unit, as_uint(height + 1),
                    [lo |-> as_int(next.lo), hi |-> as_int(next.hi)], traps,
                    seen \cup {<<height % 2, corners>>})

\* Step 4: the scan from position down for a false bit of the axis; -1 is
\* position having passed below zero.
RECURSIVE neighbour_scan(_, _, _, _)
neighbour_scan(theBaseCellWord, dimensions, axis, position) ==
    IF position < 0 THEN 0 - 1
    ELSE IF position % dimensions = axis /\ ~theBaseCellWord[position + 1] THEN position
    ELSE neighbour_scan(theBaseCellWord, dimensions, axis, position - 1)

\* Step 5: the bits of the axis from position on inverted.
neighbour_invert(theBaseCellWord, dimensions, axis, position) ==
    [index \in 1 .. Len(theBaseCellWord) |->
        IF index - 1 >= position /\ (index - 1) % dimensions = axis
        THEN ~theBaseCellWord[index] ELSE theBaseCellWord[index]]

\* Steps 3 to 5 from the word and height the cell is re-rooted to.
neighbour_from(dimensions, theBaseCellHeight, theBaseCellWord, axis) ==
    LET position == neighbour_scan(theBaseCellWord, dimensions, axis,
                                   Len(theBaseCellWord) - 1)
    IN IF position < 0 THEN [kind |-> "below_zero", position |-> position]
       ELSE [kind |-> "returned", position |-> position,
             base_word |-> theBaseCellWord,
             cell |-> GridCell(theBaseCellHeight,
                         neighbour_invert(theBaseCellWord, dimensions, axis, position))]

\* The call without step 3: the cell is never re-rooted.
neighboringCell_same_root(dimensions, theHeight, theWord, axis, traps) ==
    neighbour_from(dimensions, theHeight, theWord, axis)

\* neighboringCell( theGrid, theHeight, theWord, dim )
neighboringCell(dimensions, theHeight, theWord, axis, traps) ==
    LET baseCellBoxInLattice == compute_lattice_box(dimensions, theHeight, theWord)
        iv == baseCellBoxInLattice[axis + 1]
        found == neighbour_height_loop(2 * iv.hi + (iv.hi - iv.lo), LatticeUnit(dimensions),
                                       0, [lo |-> 0, hi |-> 1], traps, {})
    IN IF found.kind # "found" THEN [kind |-> found.kind, position |-> 0]
       ELSE IF found.height > theHeight
       THEN neighbour_from(dimensions, found.height,
               primary_cell_path(dimensions, found.height, theHeight) \o theWord, axis)
       ELSE neighbour_from(dimensions, theHeight, theWord, axis)

InitNeighbour ==
    /\ dim \in Dimensions
    /\ paving = NoPaving
    /\ other = NoPaving
    /\ theSet = NoSet
    /\ call = NoCall

NeighboringCell ==
    /\ call = NoCall
    /\ \E theHeight \in 0 .. MaxNeighbourHeight, theWord \in Words(3), axis \in 0 .. dim - 1,
          traps \in BOOLEAN :
          call' = [op |-> "neighboringCell", height |-> theHeight, word |-> theWord,
                   axis |-> axis,
                   r |-> neighboringCell(dim, theHeight, theWord, axis, traps)]
    /\ UNCHANGED <<dim, paving, other, theSet>>

NextNeighbour == NeighboringCell

SpecNeighbour == InitNeighbour /\ [][NextNeighbour]_vars

\* The box moved by its own width up the axis (0 .. d - 1).
translated(box, axis) ==
    [box EXCEPT ![axis + 1] = [lo |-> box[axis + 1].hi,
                               hi |-> 2 * box[axis + 1].hi - box[axis + 1].lo]]

\* The heights the loop of step 2 reaches with int corners.
NeighbourReachable ==
    LET box == compute_lattice_box(dim, call.height, call.word)[call.axis + 1]
    IN \E h \in IntHeights :
          2 * box.hi - box.lo <= LatticeUnit(dim) * primary_cell_corners(h, 1).hi

-----------------------------------------------------------------------------
(* A tree written as two bit words and rebuilt from them.                  *)

RECURSIVE tree_to_binary_words(_)

\* A faulty encoding: the leaves of the right child come before those of the
\* left child.
tree_to_binary_words_right_first(n) ==
    IF is_leaf(n)
    THEN [tree |-> <<FALSE>>, leaves |-> <<definitely(n.en)>>]
    ELSE LET l == tree_to_binary_words(left_node(n))
             r == tree_to_binary_words(right_node(n))
         IN [tree |-> <<TRUE>> \o l.tree \o r.tree, leaves |-> r.leaves \o l.leaves]

\* tree_to_binary_words( tree, leaves ): what the call appends to the two
\* words.
tree_to_binary_words(n) ==
    IF is_leaf(n)
    THEN [tree |-> <<FALSE>>, leaves |-> <<definitely(n.en)>>]
    ELSE LET l == tree_to_binary_words(left_node(n))
             r == tree_to_binary_words(right_node(n))
         IN [tree |-> <<TRUE>> \o l.tree \o r.tree, leaves |-> l.leaves \o r.leaves]

EncodedTrees == TreesUpTo(MaxValidNodes)

InitEncoding ==
    /\ dim \in Dimensions
    /\ paving \in {GridTreeSet(0, t) : t \in EncodedTrees}
    /\ other = NoPaving
    /\ theSet = NoSet
    /\ call = NoCall

\* paving.binary_tree()->tree_to_binary_words( tree, leaves ) on two empty
\* words.
TreeToBinaryWords ==
    /\ call = NoCall
    /\ call' = [op |-> "tree_to_binary_words",
                tree |-> tree_to_binary_words(paving.tree).tree,
                leaves |-> tree_to_binary_words(paving.tree).leaves]
    /\ UNCHANGED <<dim, paving, other, theSet>>

\* restore_node( pCurrentNode, 0, 0, tree, leaves ) on a fresh leaf.
RestoreNode ==
    /\ call.op = "tree_to_binary_words"
    /\ \E e \in {"T", "F"} :
          LET r == restore_node(Leaf(e), 0, 0, call.tree, call.leaves)
          IN /\ other' = GridTreeSet(0, r.node)
             /\ call' = [op |-> "restore_node", tree |-> call.tree, leaves |-> call.leaves,
                         arr_index |-> r.arr_index, leaf_counter |-> r.leaf_counter]
    /\ UNCHANGED <<dim, paving, theSet>>

NextEncoding ==
    \/ TreeToBinaryWords
    \/ RestoreNode

SpecEncoding == InitEncoding /\ [][NextEncoding]_vars

\* Pre-order on paths: a node before the nodes below it, the left child and
\* all below it before the right child.
path_before(v, w) ==
    \/ Len(v) < Len(w) /\ SubSeq(w, 1, Len(v)) = v
    \/ \E k \in 1 .. Len(v) :
          /\ k <= Len(w)
          /\ SubSeq(v, 1, k - 1) = SubSeq(w, 1, k - 1)
          /\ ~v[k] /\ w[k]

\* The place of a path among the paths of a set, counted from 1.
place_of(w, paths) == Cardinality({v \in paths : path_before(v, w)}) + 1

leaf_paths(n) == enabled_leaves(n) \cup disabled_leaves(n)

\* The two words hold one tree bit per node in pre-order, true for a node
\* with children, and one leaf bit per leaf from left to right, true for an
\* enabled leaf.
EncodesInOrder(n, tree, leaves) ==
    /\ Len(tree) = Cardinality(node_paths(n))
    /\ \A w \in node_paths(n) :
          tree[place_of(w, node_paths(n))] = ~is_leaf(subtree_at(n, w))
    /\ Len(leaves) = Cardinality(leaf_paths(n))
    /\ \A w \in leaf_paths(n) :
          leaves[place_of(w, leaf_paths(n))] = (w \in enabled_leaves(n))

\* C28: tree_to_binary_words writes one tree bit per node in pre-order and
\* one leaf bit per leaf from left to right, and restore_node on the two
\* words gives a tree equal to the one written, with every tree bit and
\* every leaf bit read and none read twice.
C28_BitWordRoundTrip ==
    /\ call.op \in {"tree_to_binary_words", "restore_node"} =>
          EncodesInOrder(paving.tree, call.tree, call.leaves)
    /\ call.op = "restore_node" =>
          /\ other.tree = paving.tree
          /\ call.arr_index + 1 = Len(call.tree)
          /\ call.leaf_counter = Len(call.leaves)

\* C28, a round trip the claim is about: a tree of three splits, not the same
\* on its two sides, with enabled and disabled leaves, rebuilt.
C28_Witness ==
    /\ call.op = "restore_node"
    /\ count_splits(paving.tree) = 3
    /\ is_leaf(left_node(paving.tree))
    /\ has_enabled(paving.tree)
    /\ ~all_enabled(paving.tree)
    /\ other.tree = paving.tree

-----------------------------------------------------------------------------
(* A constraint set against a paving.  The constraint set belongs to       *)
(* another module: a call draws what it answers about the bounding box of  *)
(* the paving and about the box of each enabled cell, in the order of the  *)
(* iterator.                                                               *)

\* The loop of covers( cons_set, grid_set ) from cell i on, result being the
\* value the loop has so far.
RECURSIVE covers_cells(_, _, _)
covers_cells(covering_cells, i, result) ==
    IF i > Len(covering_cells) THEN result
    ELSE IF covering_cells[i] = "F" THEN "F"
    ELSE covers_cells(covering_cells, i + 1, tri_or(result, covering_cells[i]))

\* covers( cons_set, grid_set )
covers_grid_set(unconstrained, pRootTreeNode, covers_bbox, disjoint_bbox, covering_cells) ==
    IF unconstrained THEN "T"
    ELSE IF ~has_enabled(pRootTreeNode) THEN "T"
    ELSE IF covers_bbox = "T" THEN "T"
    ELSE IF disjoint_bbox = "T" THEN "F"
    ELSE covers_cells(covering_cells, 1, "T")

InitConstraint ==
    /\ dim \in Dimensions
    /\ paving \in GridTreeSets
    /\ other = NoPaving
    /\ theSet = NoSet
    /\ call = NoCall

CoversGridSet ==
    /\ call = NoCall
    /\ \E unconstrained \in BOOLEAN, covers_bbox \in Tribool, disjoint_bbox \in Tribool,
          covering_cells \in [1 .. Len(EnabledLeavesInOrder(paving.tree)) -> Tribool] :
          call' = [op |-> "covers_grid_set", unconstrained |-> unconstrained,
                   covers_bbox |-> covers_bbox, disjoint_bbox |-> disjoint_bbox,
                   covering_cells |-> covering_cells,
                   result |-> covers_grid_set(unconstrained, paving.tree, covers_bbox,
                                              disjoint_bbox, covering_cells)]
    /\ UNCHANGED <<dim, paving, other, theSet>>

NextConstraint == CoversGridSet

SpecConstraint == InitConstraint /\ [][NextConstraint]_vars

\* A constrained set and a non-empty paving whose bounding box is neither
\* definitely covered nor definitely disjoint.
CoversByCells ==
    /\ call.op = "covers_grid_set"
    /\ ~call.unconstrained
    /\ has_enabled(paving.tree)
    /\ call.covers_bbox # "T"
    /\ call.disjoint_bbox # "T"

SomeCell(a) == \E i \in DOMAIN call.covering_cells : call.covering_cells[i] = a

\* C29 as stated: the result is definitely true only if every enabled cell is
\* definitely covered, definitely false if some cell is definitely not
\* covered, and indeterminate when no cell is definitely not covered and the
\* answer for some cell is indeterminate.
C29_CoversNeverUpgrades ==
    CoversByCells =>
        /\ call.result = "T" => ~SomeCell("F") /\ ~SomeCell("I")
        /\ SomeCell("F") => call.result = "F"
        /\ (~SomeCell("F") /\ SomeCell("I")) => call.result = "I"

\* C29, the failing case: no cell is definitely not covered, the answer for
\* some cell is indeterminate, and the result is definitely true.
C29_IndeterminateUpgraded ==
    /\ CoversByCells
    /\ ~SomeCell("F")
    /\ SomeCell("I")
    /\ SomeCell("T")
    /\ call.result = "T"

\* C29, the part the code has: the result is definitely false exactly when
\* some cell is definitely not covered, and definitely true otherwise.
C29_CoversRefutesOnly ==
    CoversByCells =>
        /\ SomeCell("F") <=> call.result = "F"
        /\ ~SomeCell("F") <=> call.result = "T"

-----------------------------------------------------------------------------
(* Restrict and remove against what the paving held before.                *)

RestrictOrRemoveCalled ==
    call.op \in {"outer_restrict", "inner_restrict", "outer_remove", "inner_remove"}

\* The nodes with children of before that are one enabled leaf now.
CollapsedNodes ==
    {w \in node_paths(call.pre.tree) :
        ~is_leaf(subtree_at(call.pre.tree, w)) /\ w \in enabled_leaves(paving.tree)}

\* C30: after outer_restrict, inner_restrict, outer_remove or inner_remove,
\* on a checker or an open set with whatever three-valued answers and at
\* whatever accuracy, every point enabled is a point that was enabled before
\* the call, a node collapsed into one enabled leaf had nothing but enabled
\* leaves below it, and the height and the root word of the paving are those
\* of before.
C30_RestrictRemoveOnlyShrink ==
    RestrictOrRemoveCalled =>
        /\ Region(dim, paving) \subseteq Region(dim, call.pre)
        /\ \A w \in CollapsedNodes : all_enabled(subtree_at(call.pre.tree, w))
        /\ paving.height = call.pre.height
        /\ paving.word = call.pre.word

\* C30, a call the claim is about: two enabled children were collapsed into
\* one enabled leaf while another enabled cell of the paving was disabled.
C30_Witness ==
    /\ RestrictOrRemoveCalled
    /\ CollapsedNodes # {}
    /\ Region(dim, paving) # Region(dim, call.pre)
    /\ Region(dim, paving) # {}

=============================================================================
